---------------------------- MODULE Spec2Model ----------------------------
(***************************************************************************)
(* A model of the fallback chains of the "find a toilet and navigate"      *)
(* application:                                                            *)
(*   - MapLauncher.openNavigation (map/MapLauncher.ts, lines 1-137): the    *)
(*     ordered launch of deep-link candidates with capability probing;     *)
(*   - HuaweiMapService.searchNearbyToilets (map/HuaweiMapService.ts): the  *)
(*     site search -> Overpass -> mock fallback chain;                      *)
(*   - LocalProvider.searchToilets (common/localProvider.ts): filter, sort  *)
(*     and limit over the seed data;                                       *)
(*   - RouteService.planRoute: the live route with its analytic fallback.  *)
(* Every await of the source is one step of the model; the outcome of a    *)
(* platform or network call is chosen nondeterministically.  One behaviour *)
(* runs one request (one user action is one logical task).                 *)
(***************************************************************************)
EXTENDS Integers, Sequences, FiniteSets, TLC

VARIABLES
  pc,          \* position of openNavigation
  engine,      \* value returned by getSelectedEngine
  engineRead,  \* how the read of the settings store went ("" before it)
  toilet,      \* the destination passed to openNavigation
  travelMode,  \* 'walking' | 'cycling'
  hasProbe,    \* typeof ctx.canOpenLink === 'function'
  candidates,  \* const candidates: string[]
  idx,         \* position of the for-of loop in candidates (1-based)
  trace,       \* what openNavigation did, in order (console lines and platform calls)
  logInstance, \* SearchLogStore.instance # null
  prefLogs,    \* the value stored under SearchLogStore.KEY
  logsAtStart, \* prefLogs when the request started (never changes afterwards)
  logOutcome,  \* how the log write of the catch block went ("" before it)
  thrown,      \* the error openNavigation rejected with ("" when none)
  spc,         \* position of searchNearbyToilets
  query,       \* its arguments: latitude, longitude, radiusMeters
  inTry,       \* the pending Overpass call was made inside the try of searchWithHuaweiSite
  searchTrace, \* the strategies started and how each settled, in order
  response,    \* the raw items of the response the result was made from
  result,      \* the list searchNearbyToilets resolved with
  overpassHttp, \* the HttpRequest objects searchWithHuaweiMapKit created and destroyed
  lpc,         \* position of LocalProvider.searchToilets
  options,     \* its argument: center, radiusM, limit
  seedData,    \* LocalProvider.seedData
  found,       \* the list LocalProvider.searchToilets resolved with
  rpc,         \* position of RouteService.planRoute
  apiKey,      \* RouteService.apiKey
  request,     \* the argument of planRoute: origin, destination, travelMode
  liveOutcome, \* how the live routing call went ("" when it was not made)
  route,       \* the RouteResult planRoute resolved with
  routeHttp,   \* the HttpRequest objects makeRequest created and destroyed
  npc,         \* position of openNavigationWithPlanning
  nav,         \* its arguments: destination, travelMode, timeLimit, origin
  routeResult, \* const routeResult of the route check (NoRoute before it)
  nidx,        \* position of the for-of loop of openExternalNavigation (1-based)
  navTrace,    \* what openNavigationWithPlanning did, in order
  gpc,         \* position of HarmonyGeo.getCurrentLocation / getCurrentLatLng
  geoEnv,      \* the operation called and what the platform reports: switch, permission
  geoRequests, \* the location requests issued to geoLocationManager, in order
  geoResult,   \* how the call settled: resolved, or rejected with an error
  mapController,          \* MapKitAdapter.mapController: "undefined" or "attached"
  markers,                \* the keys of MapKitAdapter.markers (n stands for marker_n)
  highlightedMarkerId,    \* MapKitAdapter.highlightedMarkerId (NoMarker for null)
  markerIdCounter,        \* MapKitAdapter.markerIdCounter
  pendingCameraPosition,  \* MapKitAdapter.pendingCameraPosition (NoPosition for undefined)
  cameraTimers,           \* positions whose 200 ms timer of attachController is running
  cameraMoves,            \* positions handed to the controller (animateCamera), in order
  moveRequests,           \* how many times moveCamera was called
  lastSaved,              \* the last position moveCamera saved for later (NoPosition when none)
  navReturn,   \* the boolean it resolved with or the error it rejected with ("" before that)
  apc,         \* position of each running SearchLogStore.append
  reading,     \* const current of each running append, once read
  appending,   \* the log each running append was called with
  appended,    \* the logs whose append has completed, in order of completion
  overlapped,  \* an append was called while another one was running
  cancelled    \* the user action was cancelled, and how far the chain was then

launchVars == <<pc, engine, engineRead, toilet, travelMode, hasProbe, candidates, idx, trace,
                logInstance, prefLogs, logsAtStart, logOutcome, thrown>>

searchVars == <<spc, query, inTry, searchTrace, response, result, overpassHttp>>

localVars == <<lpc, options, seedData, found>>

routeVars == <<rpc, apiKey, request, liveOutcome, route, routeHttp>>

navVars == <<npc, nav, routeResult, nidx, navTrace, navReturn>>

appendVars == <<apc, reading, appending, appended, overlapped>>

geoVars == <<gpc, geoEnv, geoRequests, geoResult>>

adapterVars == <<mapController, markers, highlightedMarkerId, markerIdCounter,
                 pendingCameraPosition, cameraTimers, cameraMoves, moveRequests, lastSaved>>

\* what an action of one operation leaves alone
exceptLaunch == <<searchVars, localVars, routeVars, navVars, appendVars, geoVars, adapterVars, cancelled>>
exceptSearch == <<launchVars, localVars, routeVars, navVars, appendVars, geoVars, adapterVars, cancelled>>
exceptLocal == <<launchVars, searchVars, routeVars, navVars, appendVars, geoVars, adapterVars, cancelled>>
exceptRoute == <<launchVars, searchVars, localVars, navVars, appendVars, geoVars, adapterVars, cancelled>>
exceptNav == <<launchVars, searchVars, localVars, routeVars, appendVars, geoVars, adapterVars, cancelled>>
exceptGeo == <<launchVars, searchVars, localVars, routeVars, navVars, appendVars, adapterVars,
               cancelled>>
exceptAdapter == <<launchVars, searchVars, localVars, routeVars, navVars, appendVars, geoVars,
                   cancelled>>
exceptAppend == <<pc, engine, engineRead, toilet, travelMode, hasProbe, candidates, idx, trace,
                  logInstance, logsAtStart, logOutcome, thrown,
                  searchVars, localVars, routeVars, navVars, geoVars, adapterVars, cancelled>>

-----------------------------------------------------------------------------
(* Bounds of the model *)

\* how many records the log store may hold before the request
MaxPreLogs == 1
\* values Date.now() may return
MaxClock == 1
\* how many times canOpenLink may throw during one request
MaxProbeThrows == 1
\* how many times append is called in one behaviour
MaxAppendCalls == 3
\* how many times moveCamera is called in one behaviour
MaxMoves == 3
\* how many markers are added in one behaviour
MaxMarkers == 2

-----------------------------------------------------------------------------
(* Inputs *)

\* stored engine values; AppStorage keeps any string, "tencent" stands for the rest
EngineValues == {"amap", "baidu", "huawei", "tencent"}

TravelModes == {"walking", "cycling"}

\* destinations: coordinates in units of 0.001 degree, and a display name
Toilets ==
  { [name |-> "WC",   latitude |-> 31231, longitude |-> 121475],
    [name |-> "WC 2", latitude |-> 31229, longitude |-> 121473] }

\* encodeURIComponent on the names in use: ASCII letters and digits are kept, a
\* reserved character (here the space) becomes the %XX escape of its byte
encodeURIComponent(s) ==
  CASE s = "WC" -> "WC"
    [] s = "WC 2" -> "WC%202"
    [] OTHER -> s

-----------------------------------------------------------------------------
(* MapLauncher: the candidate list *)

\* a URI is kept as its parts: scheme, the path and parameter layout, and the
\* values substituted into the template
Uri(scheme, form, lat, lon, name, mode) ==
  [scheme |-> scheme, form |-> form, lat |-> lat, lon |-> lon,
   name |-> name, mode |-> mode]

\* deep links for the three engines named in the settings only
EngineLinks_Known(eng, lat, lon, name, mode) ==
  IF eng = "amap"
    THEN << Uri("amapuri", "route/plan/?dlat&dlon&dname&dev=0&t", lat, lon, name,
                IF mode = "walking" THEN "2" ELSE "0") >>
  ELSE IF eng = "baidu"
    THEN << Uri("baidumap", "map/direction?destination=latlng|name&coord_type=wgs84&mode",
                lat, lon, name, IF mode = "walking" THEN "walking" ELSE "riding") >>
  ELSE IF eng = "huawei"
    THEN << Uri("petalmaps", "routePlan?destLat&destLng&destName&navType", lat, lon, name, mode),
            Uri("petalmaps", "routePlan?destLat&destLng&destName&navType", lat, lon, name,
                IF mode = "walking" THEN "walk" ELSE "bike"),
            Uri("petalmaps", "navigation?dlat&dlon&dname&type", lat, lon, name,
                IF mode = "walking" THEN "walk" ELSE "bike"),
            Uri("mapapp", "navigation?daddr&language=zh&type", lat, lon, "",
                IF mode = "walking" THEN "walk" ELSE "cycle") >>
  ELSE << >>

\* the engine-specific deep links (the if / else-if / else of openNavigation)
EngineLinks(eng, lat, lon, name, mode) ==
  LET petalModeA == IF mode = "walking" THEN "walking" ELSE "cycling"
      petalModeB == IF mode = "walking" THEN "walk" ELSE "bike"
      mapAppMode == IF mode = "walking" THEN "walk" ELSE "cycle"
  IN  IF eng = "amap"
        THEN << Uri("amapuri", "route/plan/?dlat&dlon&dname&dev=0&t", lat, lon, name,
                    IF mode = "walking" THEN "2" ELSE "0") >>
      ELSE IF eng = "baidu"
        THEN << Uri("baidumap", "map/direction?destination=latlng|name&coord_type=wgs84&mode",
                    lat, lon, name, IF mode = "walking" THEN "walking" ELSE "riding") >>
      ELSE << Uri("petalmaps", "routePlan?destLat&destLng&destName&navType", lat, lon, name, petalModeA),
              Uri("petalmaps", "routePlan?destLat&destLng&destName&navType", lat, lon, name, petalModeB),
              Uri("petalmaps", "navigation?dlat&dlon&dname&type", lat, lon, name, petalModeB),
              Uri("mapapp", "navigation?daddr&language=zh&type", lat, lon, "", mapAppMode) >>

geoLink(lat, lon, name) == Uri("geo", "lat,lon?q", lat, lon, name, "")

httpsFallback(lat, lon) == Uri("https", "petalmaps.com/?q", lat, lon, "", "")

\* a list that forgets the web fallback
BuildCandidates_NoWeb(eng, t, mode) ==
  EngineLinks(eng, t.latitude, t.longitude, encodeURIComponent(t.name), mode)
    \o << geoLink(t.latitude, t.longitude, encodeURIComponent(t.name)) >>

\* candidates after candidates.push(geo, httpsFallback)
BuildCandidates(eng, t, mode) ==
  EngineLinks(eng, t.latitude, t.longitude, encodeURIComponent(t.name), mode)
    \o << geoLink(t.latitude, t.longitude, encodeURIComponent(t.name)),
          httpsFallback(t.latitude, t.longitude) >>


-----------------------------------------------------------------------------
(* MapLauncher: probing and launching one candidate *)

\* one line of what openNavigation did: op is "try" (console.info try open),
\* "canOpenLink", "skip" (console.info canOpenLink=false), "startAbility",
\* "openLink" or "warn" (console.warn of a failed launch); i is the candidate
Event(op, i, res) == [op |-> op, i |-> i, res |-> res]

\* what ctx.canOpenLink can do; "absent" when the platform has no such function
ProbeOutcomes(hp) == IF hp THEN {"true", "false", "throws"} ELSE {"absent"}

\* a probe that treats an exception as "cannot open"
canOpen_ThrowIsFalse(hp, out) ==
  IF hp THEN out = "true" ELSE TRUE

\* canOpen: !!ok when canOpenLink exists and returns, true otherwise
canOpen(hp, out) ==
  IF hp /\ out # "throws" THEN out = "true" ELSE TRUE

\* the platform calls canOpen makes
ProbeEvents(hp, out, i) ==
  IF hp THEN << Event("canOpenLink", i, out) >> ELSE << >>

\* tryOpen that launches even after a negative probe
AfterProbe_Ignore(probe) == "startAbility"

\* tryOpen after the probe: if (!probe) return false
AfterProbe(probe) == IF probe THEN "startAbility" ELSE "next"

\* tryOpen that opens the link as well after startAbility succeeded
AfterStartAbility_Both(ok) == "openLink"

\* tryOpen that gives the candidate up when startAbility fails
AfterStartAbility_NoLink(ok) == IF ok THEN "returned" ELSE "next"

\* tryOpen: if (await openViaStartAbility(ctx, uri)) return true
AfterStartAbility(ok) == IF ok THEN "returned" ELSE "openLink"

\* a loop that goes on after a successful launch
AfterOpenLink_GoOn(ok) == "next"

\* tryOpen: if (await openViaLink(ctx, uri)) return true; return false
AfterOpenLink(ok) == IF ok THEN "returned" ELSE "next"

\* tryOpen: typeof uri !== 'string' || uri.length === 0
IsEmptyUri(uri) == uri.scheme = ""

RECURSIVE LoopFrom(_, _, _)
\* the for-of loop from candidate i on, up to the next await: the console line,
\* the empty-uri check of tryOpen, and throw new Error(...) after the last one
LoopFrom(cands, i, tr) ==
  IF i > Len(cands)
    THEN [pc |-> "catch", idx |-> i, trace |-> tr]
  ELSE IF IsEmptyUri(cands[i])
    THEN LoopFrom(cands, i + 1, Append(tr, Event("try", i, "")))
  ELSE [pc |-> "probe", idx |-> i, trace |-> Append(tr, Event("try", i, ""))]

\* a loop that tries the last candidate once more before giving up
LoopNext_Retry(cands, i, tr) ==
  IF i = Len(cands) /\ Len(SelectSeq(tr, LAMBDA e : e.op = "try" /\ e.i = i)) < 2
    THEN LoopFrom(cands, i, tr)
    ELSE LoopFrom(cands, i + 1, tr)

\* the loop after tryOpen returned false for candidate i
LoopNext(cands, i, tr) == LoopFrom(cands, i + 1, tr)

\* where openNavigation is after a step of tryOpen on candidate idx
Continue(next, tr) ==
  IF next = "next" THEN LoopNext(candidates, idx, tr)
  ELSE [pc |-> next, idx |-> idx, trace |-> tr]


-----------------------------------------------------------------------------
(* SearchLogStore *)

\* SearchLogStore.append keeps the most recent LogCap entries
LogCap == 200

\* a stored record; message keeps the parts of the message string
LogRecord(ts, text, eng, lat, lon) ==
  [timestamp |-> ts, message |-> [text |-> text, engine |-> eng],
   centerLatitude |-> lat, centerLongitude |-> lon]

\* a record written by an earlier request
OldRecord(k) == LogRecord(0, "old", "", k, k)

\* the stored string: valid is FALSE when it does not parse as a JSON array
Stored(arr) == [valid |-> TRUE, arr |-> arr]

CorruptStored == [valid |-> FALSE, arr |-> << >>]

\* a getAll that hands on something for a value that is not an array
getAll_NotArray(raw) == IF raw.valid THEN raw.arr ELSE <<OldRecord(0)>>

\* getAll: the parsed array, [] when the stored value is corrupt
getAll(raw) == IF raw.valid THEN raw.arr ELSE << >>

\* a trim that keeps the oldest LogCap entries
Trimmed_KeepOldest(current) ==
  SubSeq(current, 1, IF Len(current) > LogCap THEN LogCap ELSE Len(current))

\* current.slice(Math.max(0, current.length - 200))
Trimmed(current) ==
  SubSeq(current, (IF Len(current) > LogCap THEN Len(current) - LogCap ELSE 0) + 1,
         Len(current))

\* an append that writes the record twice
appendStored_Twice(raw, log) ==
  Stored(Trimmed(Append(Append(getAll(raw), log), log)))

\* append(log): the value put under KEY
appendStored(raw, log) == Stored(Trimmed(Append(getAll(raw), log)))

\* what can happen in the catch block of openNavigation while it logs:
\* getPreferences throws (only when no instance exists yet), pref.get, pref.put
\* or pref.flush throws, or everything succeeds
LogOutcomes(hasInstance) ==
  (IF hasInstance THEN {} ELSE {"initThrows"})
    \cup {"getThrows", "putThrows", "flushThrows", "ok"}

\* the record openNavigation logs
FailureRecord(ts, msg, eng, t) == LogRecord(ts, msg, eng, t.latitude, t.longitude)


-----------------------------------------------------------------------------
(* MapLauncher.openNavigation *)

NoToilet == [name |-> "", latitude |-> 0, longitude |-> 0]

LaunchIdle == pc = "idle"

SearchIdle == spc = "idle"

LocalIdle == lpc = "idle"

RouteIdle == rpc = "idle"

NavIdle == npc = "idle"

GeoIdle == gpc = "idle"

\* what the read of the engine can do: AppStorage.getInstance throws because
\* init was never called, pref.get rejects, or the stored value is returned
EngineReads == {"ok", "noInstance", "getRejects"}

\* a read that hands an empty engine to the dispatcher when it fails
getSelectedEngine_Empty(stored, throws) == IF throws THEN "" ELSE stored

\* getSelectedEngine: the stored value, 'huawei' when AppStorage throws
getSelectedEngine(stored, throws) == IF throws THEN "huawei" ELSE stored

\* openNavigation is called: the engine is read, the candidates are built and the
\* loop reaches its first await
OpenNavigation ==
  /\ LaunchIdle
  /\ SearchIdle
  /\ LocalIdle
  /\ RouteIdle
  /\ NavIdle
  /\ GeoIdle
  /\ \E stored \in EngineValues, rd \in EngineReads, t \in Toilets,
        mode \in TravelModes, hp \in BOOLEAN :
       LET throws == rd # "ok"
           eng   == getSelectedEngine(stored, throws)
           cands == BuildCandidates(eng, t, mode)
           go    == LoopFrom(cands, 1, << >>)
       IN  /\ throws => stored = "huawei"
           /\ engine' = eng
           /\ engineRead' = rd
           /\ toilet' = t
           /\ travelMode' = mode
           /\ hasProbe' = hp
           /\ candidates' = cands
           /\ pc' = go.pc
           /\ idx' = go.idx
           /\ trace' = go.trace
  /\ UNCHANGED <<logInstance, prefLogs, logsAtStart, logOutcome, thrown>>
  /\ UNCHANGED exceptLaunch

\* how often canOpenLink has thrown in this request
ProbeThrows == Len(SelectSeq(trace, LAMBDA e : e.op = "canOpenLink" /\ e.res = "throws"))

\* await MapLauncher.canOpen(ctx, uri) resolves
Probe ==
  /\ pc = "probe"
  /\ \E out \in ProbeOutcomes(hasProbe) :
       /\ out = "throws" => ProbeThrows < MaxProbeThrows
       /\ LET probe == canOpen(hasProbe, out)
           tr    == trace \o ProbeEvents(hasProbe, out, idx)
                      \o (IF probe THEN << >> ELSE << Event("skip", idx, "") >>)
           go    == Continue(AfterProbe(probe), tr)
          IN  /\ pc' = go.pc
              /\ idx' = go.idx
              /\ trace' = go.trace
  /\ UNCHANGED <<engine, engineRead, toilet, travelMode, hasProbe, candidates,
                 logInstance, prefLogs, logsAtStart, logOutcome, thrown>>
  /\ UNCHANGED exceptLaunch

\* await ctx.startAbility(want) settles
StartAbility ==
  /\ pc = "startAbility"
  /\ \E ok \in BOOLEAN :
       LET tr == trace \o << Event("startAbility", idx, IF ok THEN "ok" ELSE "fail") >>
                   \o (IF ok THEN << >> ELSE << Event("warn", idx, "startAbility") >>)
           go == Continue(AfterStartAbility(ok), tr)
       IN  /\ pc' = go.pc
           /\ idx' = go.idx
           /\ trace' = go.trace
  /\ UNCHANGED <<engine, engineRead, toilet, travelMode, hasProbe, candidates,
                 logInstance, prefLogs, logsAtStart, logOutcome, thrown>>
  /\ UNCHANGED exceptLaunch

\* await ctx.openLink(link, opts) settles
OpenLink ==
  /\ pc = "openLink"
  /\ \E ok \in BOOLEAN :
       LET tr == trace \o << Event("openLink", idx, IF ok THEN "ok" ELSE "fail") >>
                   \o (IF ok THEN << >> ELSE << Event("warn", idx, "openLink") >>)
           go == Continue(AfterOpenLink(ok), tr)
       IN  /\ pc' = go.pc
           /\ idx' = go.idx
           /\ trace' = go.trace
  /\ UNCHANGED <<engine, engineRead, toilet, travelMode, hasProbe, candidates,
                 logInstance, prefLogs, logsAtStart, logOutcome, thrown>>
  /\ UNCHANGED exceptLaunch

\* an openNavigation that swallows the error after logging it
AfterCatch_Swallow == "returned"

\* the end of the catch block: throw err
AfterCatch == "thrown"

\* a catch block in which a failed log write replaces the error
Rethrown_LogError(out, err) == IF out = "ok" THEN err ELSE "log write failed"

\* try { init; appendError } catch {} throw err: whatever the log write did,
\* the error thrown is the one that was caught
Rethrown(out, err) == err

\* the catch block: the failure is logged (a failure to log is swallowed) and
\* the error is thrown again
LogFailure ==
  /\ pc = "catch"
  /\ \E out \in LogOutcomes(logInstance), ts \in 1..MaxClock :
       LET msg == "all navigation attempts failed"
           rec == FailureRecord(ts, msg, engine, toilet)
       IN  /\ logInstance' = (logInstance \/ out # "initThrows")
           /\ prefLogs' = IF out \in {"ok", "flushThrows"}
                            THEN appendStored(prefLogs, rec)
                            ELSE prefLogs
           /\ logOutcome' = out
           /\ thrown' = IF AfterCatch = "thrown" THEN Rethrown(out, msg) ELSE ""
           /\ pc' = AfterCatch
  /\ UNCHANGED <<engine, engineRead, toilet, travelMode, hasProbe, candidates,
                 idx, trace, logsAtStart>>
  /\ UNCHANGED exceptLaunch

-----------------------------------------------------------------------------
(* HuaweiMapService: distances and normalisation *)

RECURSIVE SqrtBetween(_, _, _)
\* the largest r in lo..hi with r * r <= x (lo * lo <= x is given)
SqrtBetween(x, lo, hi) ==
  IF lo >= hi THEN lo
  ELSE LET mid == (lo + hi + 1) \div 2
       IN  IF mid * mid <= x THEN SqrtBetween(x, mid, hi)
                             ELSE SqrtBetween(x, lo, mid - 1)

\* the square root, rounded down
FloorSqrt(x) == SqrtBetween(x, 0, 46340)

Abs(n) == IF n < 0 THEN 0 - n ELSE n

\* decimetres per 0.001 degree of latitude (R = 6371000: 111.195 m), and of
\* longitude at the latitude of the query centres (31.23 degrees: 95.08 m)
DecimetresPerMilliLat == 1112
DecimetresPerMilliLon == 951

\* Math.round(haversine(lat1, lon1, lat2, lon2)), in metres, for coordinates in
\* units of 0.001 degree that lie a few kilometres apart near latitude 31.23: at
\* that scale the great circle is the flat distance, to the metre
haversine(lat1, lon1, lat2, lon2) ==
  LET dy == DecimetresPerMilliLat * Abs(lat2 - lat1)
      dx == DecimetresPerMilliLon * Abs(lon2 - lon1)
  IN  (FloorSqrt(dy * dy + dx * dx) + 5) \div 10

\* an element of a provider response; hasLoc is FALSE when its coordinate is
\* missing or not a number
RawPoint(id, name, lat, lon, hasLoc) ==
  [id |-> id, name |-> name, lat |-> lat, lon |-> lon, hasLoc |-> hasLoc]

\* a returned ToiletPoi; distance -1 stands for NaN; src is the strategy that
\* produced it (not a field of the program's object)
Poi(id, name, lat, lon, distance, src) ==
  [id |-> id, name |-> name, latitude |-> lat, longitude |-> lon,
   distance |-> distance, src |-> src]

NaN == -1

\* the callback of items.map / elements.map
ToPoi(el, lat, lon, src) ==
  Poi(el.id, el.name, el.lat, el.lon,
      IF el.hasLoc THEN haversine(lat, lon, el.lat, el.lon) ELSE NaN, src)

\* a filter that compares with the radius sent to the provider
KeepPoi_Clamped(t, radiusMeters) ==
  LET lo == IF radiusMeters > 50 THEN radiusMeters ELSE 50
      sent == IF lo < 3000 THEN lo ELSE 3000
  IN  t.distance # -1 /\ t.distance <= sent

\* Number.isFinite(t.distance) && t.distance <= radiusMeters
KeepPoi(t, radiusMeters) == t.distance # NaN /\ t.distance <= radiusMeters

RECURSIVE InsertByDistance_Before(_, _)
\* t inserted before the first element that is as far away or farther
InsertByDistance_Before(sorted, t) ==
  IF sorted = << >> THEN << t >>
  ELSE IF Head(sorted).distance < t.distance
    THEN << Head(sorted) >> \o InsertByDistance_Before(Tail(sorted), t)
  ELSE << t >> \o sorted

RECURSIVE InsertByDistance(_, _)
\* t inserted after every element that is not farther away
InsertByDistance(sorted, t) ==
  IF sorted = << >> THEN << t >>
  ELSE IF Head(sorted).distance <= t.distance
    THEN << Head(sorted) >> \o InsertByDistance(Tail(sorted), t)
  ELSE << t >> \o sorted

RECURSIVE SortByDistanceFrom(_, _)
SortByDistanceFrom(sorted, rest) ==
  IF rest = << >> THEN sorted
  ELSE SortByDistanceFrom(InsertByDistance(sorted, Head(rest)), Tail(rest))

\* a list left in the order of the response
SortByDistance_Keep(list) == list

\* .sort((a, b) => a.distance - b.distance), a stable sort
SortByDistance(list) == SortByDistanceFrom(<< >>, list)

\* a normalisation that gives up the whole response for one bad element
Normalize_AllOrNothing(items, q, src) ==
  IF \E k \in 1..Len(items) : ~items[k].hasLoc
    THEN << >>
    ELSE SortByDistance([k \in 1..Len(items) |->
                           ToPoi(items[k], q.latitude, q.longitude, src)])

\* items.map(...).filter(...).sort(...)
Normalize(items, q, src) ==
  SortByDistance(
    SelectSeq([k \in 1..Len(items) |-> ToPoi(items[k], q.latitude, q.longitude, src)],
              LAMBDA t : KeepPoi(t, q.radiusMeters)))

\* Math.min(Math.max(radiusMeters, 50), 3000)
MinRadius == 50
MaxRadius == 3000

ClampRadius(r) ==
  LET lo == IF r > MinRadius THEN r ELSE MinRadius
  IN  IF lo < MaxRadius THEN lo ELSE MaxRadius

\* mockResults: offsets from the centre and the distances written in the source
MockResults(q) ==
  << Poi("1", "mock1", q.latitude + 1, q.longitude + 1, 120, "mock"),
     Poi("2", "mock2", q.latitude - 1, q.longitude - 1, 250, "mock"),
     Poi("3", "mock3", q.latitude - 1, q.longitude + 2, 380, "mock"),
     Poi("4", "mock4", q.latitude + 1, q.longitude - 2, 450, "mock"),
     Poi("5", "mock5", q.latitude + 2, q.longitude + 3, 680, "mock"),
     Poi("6", "mock6", q.latitude + 3, q.longitude - 3, 750, "mock"),
     Poi("7", "mock7", q.latitude - 2, q.longitude + 4, 890, "mock"),
     Poi("8", "mock8", q.latitude - 3, q.longitude - 4, 950, "mock") >>

\* getMockToiletData: filter by the written distance, then sort
getMockToiletData(q) ==
  SortByDistance(SelectSeq(MockResults(q), LAMBDA t : t.distance <= q.radiusMeters))

-----------------------------------------------------------------------------
(* HuaweiMapService: inputs and provider responses *)

Centres == { [latitude |-> 31230, longitude |-> 121474] }

Radii == {30, 190, 1000, 5000}

Queries == { [latitude |-> c.latitude, longitude |-> c.longitude, radiusMeters |-> r] :
               c \in Centres, r \in Radii }

NoQuery == [latitude |-> 0, longitude |-> 0, radiusMeters |-> 0]

\* elements a provider may return around the centre (31230, 121474)
Near(pre) == RawPoint(pre, "near", 31231, 121475, TRUE)
Mid(pre)  == RawPoint(pre, "mid", 31233, 121474, TRUE)
Edge(pre) == RawPoint(pre, "edge", 31230, 121476, TRUE)
Far(pre)  == RawPoint(pre, "far", 31270, 121474, TRUE)
Bad(pre)  == RawPoint(pre, "bad", 0, 0, FALSE)

\* resp.sites / resp.results of the site search ([] also when neither is an array)
SiteItems ==
  { << >>, << Mid("s2"), Near("s1") >>, << Bad("s3"), Near("s1") >>, << Far("s4") >> }

\* the ways the site search fails: no site module or constructor, rejected call
SiteFailures == {"noModule", "rejects"}

\* data.elements of the Overpass answer ([] also when it is not an array)
OverpassElements ==
  { << >>, << Mid("o2"), Edge("o5"), Near("o1") >>, << Bad("o3") >>,
    << Far("o4"), Near("o1") >> }

\* the ways the Overpass query fails: request rejects, status is not 200, the
\* body does not parse
OverpassFailures == {"network", "status", "parse"}

-----------------------------------------------------------------------------
(* HuaweiMapService.searchNearbyToilets *)

\* one line of what the search did: s is the strategy, ev is "start", "throws",
\* "empty" (an empty raw response) or "returns"; radius is the radius sent
SearchEvent(s, ev, radius) == [s |-> s, ev |-> ev, radius |-> radius]

StartOverpass(q) == SearchEvent("overpass", "start", ClampRadius(q.radiusMeters))

StartMock(q) == SearchEvent("mock", "start", q.radiusMeters)

\* searchNearbyToilets is called and calls searchWithHuaweiSite
SearchNearbyToilets ==
  /\ SearchIdle
  /\ LaunchIdle
  /\ LocalIdle
  /\ RouteIdle
  /\ NavIdle
  /\ GeoIdle
  /\ \E q \in Queries :
       /\ query' = q
       /\ searchTrace' = << SearchEvent("site", "start", ClampRadius(q.radiusMeters)) >>
  /\ spc' = "site"
  /\ UNCHANGED <<inTry, response, result, overpassHttp>>
  /\ UNCHANGED exceptSearch

\* HttpRequest objects: how many were created and how many destroyed
NoHttp == [created |-> 0, destroyed |-> 0]

\* http.createHttp()
createHttp(h) == [h EXCEPT !.created = @ + 1]

\* httpRequest.destroy()
destroy(h) == [h EXCEPT !.destroyed = @ + 1]

\* searchWithHuaweiMapKit after its request: httpRequest.destroy() is the
\* statement before 'return toilets'; the catch block only logs and throws
AfterOverpassRequest(h, failed) == IF failed THEN h ELSE destroy(h)

\* makeRequest after its request: finally { httpRequest.destroy() }
AfterMakeRequest(h, failed) == destroy(h)

\* the catch of searchWithHuaweiSite: return await this.searchWithHuaweiMapKit(...)
SiteFailed(tr, q) ==
  [spc |-> "overpass", inTry |-> FALSE, trace |-> Append(tr, StartOverpass(q))]

\* a site search that adds the Overpass points to its own
SiteResult_Merge(items, q) ==
  Normalize(items, q, "site") \o Normalize(<< Near("o1") >>, q, "overpass")

\* the list searchWithHuaweiSite returns for a non-empty response
SiteResult(items, q) == Normalize(items, q, "site")

\* the site search settles: it throws, answers nothing, or answers some items
SiteSettles ==
  /\ spc = "site"
  /\ \/ \E f \in SiteFailures :
          LET go == SiteFailed(Append(searchTrace, SearchEvent("site", "throws", 0)), query)
          IN  /\ spc' = go.spc
              /\ inTry' = go.inTry
              /\ searchTrace' = go.trace
              /\ overpassHttp' = createHttp(overpassHttp)
              /\ UNCHANGED <<response, result>>
     \/ \E items \in SiteItems :
          IF items = << >>
            THEN /\ spc' = "overpass"
                 /\ inTry' = TRUE
                 /\ searchTrace' = searchTrace \o << SearchEvent("site", "empty", 0),
                                                     StartOverpass(query) >>
                 /\ overpassHttp' = createHttp(overpassHttp)
                 /\ UNCHANGED <<response, result>>
            ELSE /\ spc' = "done"
                 /\ response' = items
                 /\ result' = SiteResult(items, query)
                 /\ searchTrace' = Append(searchTrace, SearchEvent("site", "returns", 0))
                 /\ UNCHANGED <<inTry, overpassHttp>>
  /\ UNCHANGED query
  /\ UNCHANGED exceptSearch

\* an Overpass failure that searchNearbyToilets does not catch
OverpassFailed_Surfaces(tr, caught, q) ==
  IF caught
    THEN [spc |-> "overpass", inTry |-> FALSE,
          trace |-> tr \o << SearchEvent("overpass", "throws", 0), StartOverpass(q) >>]
    ELSE [spc |-> "failed", inTry |-> FALSE,
          trace |-> Append(tr, SearchEvent("overpass", "throws", 0))]

\* searchWithHuaweiMapKit throws: inside the try of searchWithHuaweiSite the
\* catch of that function calls it again; otherwise searchNearbyToilets falls
\* back to the mock data
OverpassFailed(tr, caught, q) ==
  IF caught
    THEN [spc |-> "overpass", inTry |-> FALSE,
          trace |-> tr \o << SearchEvent("overpass", "throws", 0), StartOverpass(q) >>]
    ELSE [spc |-> "mock", inTry |-> FALSE,
          trace |-> tr \o << SearchEvent("overpass", "throws", 0), StartMock(q) >>]

\* the Overpass request settles: it fails, or answers some elements
OverpassSettles ==
  /\ spc = "overpass"
  /\ \/ \E f \in OverpassFailures :
          LET go == OverpassFailed(searchTrace, inTry, query)
              h  == AfterOverpassRequest(overpassHttp, TRUE)
          IN  /\ spc' = go.spc
              /\ inTry' = go.inTry
              /\ searchTrace' = go.trace
              /\ overpassHttp' = IF go.spc = "overpass" THEN createHttp(h) ELSE h
              /\ UNCHANGED <<response, result>>
     \/ \E elements \in OverpassElements :
          /\ spc' = "done"
          /\ response' = elements
          /\ result' = Normalize(elements, query, "overpass")
          /\ searchTrace' = Append(searchTrace, SearchEvent("overpass", "returns", 0))
          /\ overpassHttp' = AfterOverpassRequest(overpassHttp, FALSE)
          /\ inTry' = FALSE
  /\ UNCHANGED query
  /\ UNCHANGED exceptSearch

\* the 800 ms timer of getMockToiletData fires
MockSettles ==
  /\ spc = "mock"
  /\ spc' = "done"
  /\ result' = getMockToiletData(query)
  /\ searchTrace' = Append(searchTrace, SearchEvent("mock", "returns", 0))
  /\ UNCHANGED <<query, inTry, response, overpassHttp>>
  /\ UNCHANGED exceptSearch

-----------------------------------------------------------------------------
(* common/utils/haversine.ts and LocalProvider.searchToilets *)

\* a LatLng of common/types.ts; lat and lng are in units of 0.0001 degree
LatLng(lat, lng) == [lat |-> lat, lng |-> lng]

\* a seed ToiletPoi (name and openHours play no part in the search)
Seed(id, lat, lng) == [id |-> id, lat |-> lat, lng |-> lng]

\* getDefaultSeedData
getDefaultSeedData ==
  << Seed("toilet_001", 312317, 1214750), Seed("toilet_002", 312342, 1214789),
     Seed("toilet_003", 312396, 1214906), Seed("toilet_004", 312267, 1214920),
     Seed("toilet_005", 312198, 1214762), Seed("toilet_006", 312289, 1214478),
     Seed("toilet_007", 311956, 1214370), Seed("toilet_008", 312352, 1215058),
     Seed("toilet_009", 312231, 1214242), Seed("toilet_010", 312108, 1214661),
     Seed("toilet_011", 312289, 1214756), Seed("toilet_012", 312258, 1214928),
     Seed("toilet_013", 312198, 1214689), Seed("toilet_014", 311979, 1213364),
     Seed("toilet_015", 312495, 1214558) >>

\* seed data given to the constructor: five places around DEFAULT_CENTER, "a" and
\* "b" equally far from it (190 m), and so "d" and "e" (222 m); "c" is nearer
CustomSeedData ==
  << Seed("a", 312304, 1214757), Seed("b", 312304, 1214717), Seed("d", 312324, 1214737),
     Seed("c", 312304, 1214747), Seed("e", 312284, 1214737) >>

\* this.seedData = seedData || this.getDefaultSeedData()
SeedChoices == { getDefaultSeedData, CustomSeedData }

\* the longest side, in metres, for which the distance is computed to the metre
FineRange == 16000

\* decimetres per 0.001 degree of longitude at a latitude: 1112 * cos(lat), for
\* the two latitudes of the model, 31.23 (Shanghai) and 39.90 (Beijing)
LonDecimetres(lat) == IF lat > 350000 THEN 853 ELSE DecimetresPerMilliLon

\* a distance whose longitude term is scaled by the latitude of point1 alone
calculateDistance_FromFirst(point1, point2) ==
  LET dy == (DecimetresPerMilliLat * Abs(point2.lat - point1.lat) + 50) \div 100
      dx == (LonDecimetres(point1.lat) * Abs(point2.lng - point1.lng) + 50) \div 100
  IN  IF dy <= FineRange /\ dx <= FineRange
        THEN (FloorSqrt(4 * (dy * dy + dx * dx)) + 1) \div 2
        ELSE 1000 * FloorSqrt((dy \div 1000) * (dy \div 1000)
                              + (dx \div 1000) * (dx \div 1000))

\* calculateDistance: Math.round(distanceKm * 1000).  The sides of the triangle
\* are taken in metres (0.0001 degree is 11.12 m of latitude and 9.51 m of
\* longitude at latitude 31.23); beyond FineRange they are taken in kilometres.
\* The longitude side carries the term cos(lat1) * cos(lat2) of the source
calculateDistance(point1, point2) ==
  LET dy == (DecimetresPerMilliLat * Abs(point2.lat - point1.lat) + 50) \div 100
      dx == (FloorSqrt(LonDecimetres(point1.lat) * LonDecimetres(point2.lat))
               * Abs(point2.lng - point1.lng) + 50) \div 100
  IN  IF dy <= FineRange /\ dx <= FineRange
        THEN (FloorSqrt(4 * (dy * dy + dx * dx)) + 1) \div 2
        ELSE 1000 * FloorSqrt((dy \div 1000) * (dy \div 1000)
                              + (dx \div 1000) * (dx \div 1000))

\* isWithinRadius
isWithinRadius(center, point, radiusM) == calculateDistance(center, point) <= radiusM

\* sortByDistance: every poi gets its distance, then a stable sort by it
sortByDistance(pois, center) ==
  SortByDistance([k \in 1..Len(pois) |->
                    [id |-> pois[k].id, lat |-> pois[k].lat, lng |-> pois[k].lng,
                     distance |-> calculateDistance(center, pois[k])]])

\* Array.prototype.slice(0, end): a negative end counts from the end of the list
Slice(list, end) ==
  LET stop == IF end < 0 THEN Len(list) + end
              ELSE IF end > Len(list) THEN Len(list) ELSE end
  IN  IF stop <= 0 THEN << >> ELSE SubSeq(list, 1, stop)

DEFAULT_LIMIT == 20

\* const { center, radiusM, limit = DEFAULT_LIMIT } = options
LimitOf(opts) == IF opts.hasLimit THEN opts.limit ELSE DEFAULT_LIMIT

\* a search that cuts the seed list to the limit before it sorts
searchToiletsResult_SliceFirst(seeds, opts) ==
  sortByDistance(
    Slice(SelectSeq(seeds, LAMBDA t : isWithinRadius(opts.center, t, opts.radiusM)),
          LimitOf(opts)),
    opts.center)

\* filter, sortByDistance, slice
searchToiletsResult(seeds, opts) ==
  Slice(sortByDistance(
          SelectSeq(seeds, LAMBDA t : isWithinRadius(opts.center, t, opts.radiusM)),
          opts.center),
        LimitOf(opts))

\* DEFAULT_CENTER, the centre of the test (Beijing), the place of toilet_001
LocalCentres == { LatLng(312304, 1214737), LatLng(399042, 1164074), LatLng(312317, 1214750) }

\* radiusM: small, DEFAULT_RADIUS_M, the radius of the test, and a large one
LocalRadii == {300, 1500, 5000, 20000}

\* limit: absent, or a positive count
Limits == {1, 3, 10}

SearchOptions(center, radiusM, limit, hasLimit) ==
  [center |-> center, radiusM |-> radiusM, limit |-> limit, hasLimit |-> hasLimit]

LocalOptions ==
  { SearchOptions(c, r, l, TRUE) : c \in LocalCentres, r \in LocalRadii, l \in Limits }
    \cup { SearchOptions(c, r, 0, FALSE) : c \in LocalCentres, r \in LocalRadii }

NoOptions == SearchOptions(LatLng(0, 0), 0, 0, FALSE)

\* searchToilets is called and waits for its 100 ms timer
SearchToilets ==
  /\ LaunchIdle
  /\ SearchIdle
  /\ LocalIdle
  /\ RouteIdle
  /\ NavIdle
  /\ GeoIdle
  /\ options' \in LocalOptions
  /\ seedData' \in SeedChoices
  /\ lpc' = "waiting"
  /\ UNCHANGED found
  /\ UNCHANGED exceptLocal

\* the timer fires: the seed data are filtered, sorted and cut to the limit
SearchToiletsResumes ==
  /\ lpc = "waiting"
  /\ found' = searchToiletsResult(seedData, options)
  /\ lpc' = "done"
  /\ UNCHANGED <<options, seedData>>
  /\ UNCHANGED exceptLocal

-----------------------------------------------------------------------------
(* RouteService.planRoute *)

\* private readonly apiKey: '' in the source, to be replaced by a real key
ApiKeys == {"", "key"}

\* calculateDistance of RouteService: R * c, not rounded.  The value is kept in
\* decimetres; lat and lng are in units of 0.0001 degree, a few kilometres apart
RouteService_calculateDistance(pos1, pos2) ==
  LET dy == (DecimetresPerMilliLat * Abs(pos2.lat - pos1.lat) + 5) \div 10
      dx == (DecimetresPerMilliLon * Abs(pos2.lng - pos1.lng) + 5) \div 10
  IN  FloorSqrt(dy * dy + dx * dx)

\* Math.round(num / den) for num >= 0 and den > 0
Round(num, den) == (2 * num + den) \div (2 * den)

\* the speeds of getEstimatedRoute, in centimetres per second: 1.39 and 4.17 m/s
WalkingSpeed == 139
CyclingSpeed == 417

\* request.travelMode === TravelMode.WALKING ? 1.39 : 4.17
SpeedOf(mode) == IF mode = "walking" THEN WalkingSpeed ELSE CyclingSpeed

\* a RouteResult; source tells which branch of planRoute made it (not a field
\* of the program's object)
RouteResult(distance, duration, steps, source) ==
  [distance |-> distance, duration |-> duration, steps |-> steps, source |-> source]

RouteStep(stepDistance, duration) == [stepDistance |-> stepDistance, duration |-> duration]

NoRoute == RouteResult(0, 0, << >>, "")

\* the fields of the interface RouteResult
RouteResultFields == {"distance", "duration", "steps", "polyline"}

\* an estimate that cuts the seconds instead of rounding them
getEstimatedRoute_Floor(req) ==
  LET distance == RouteService_calculateDistance(req.origin, req.destination)
      duration == (10 * distance) \div SpeedOf(req.travelMode)
  IN  RouteResult(Round(distance, 10), duration,
                  << RouteStep(Round(distance, 10), duration) >>, "estimated")

\* getEstimatedRoute: distance / speed, both rounded only in the result
getEstimatedRoute(req) ==
  LET distance == RouteService_calculateDistance(req.origin, req.destination)
      duration == Round(10 * distance, SpeedOf(req.travelMode))
  IN  RouteResult(Round(distance, 10), duration,
                  << RouteStep(Round(distance, 10), duration) >>, "estimated")

\* a field the answer does not have, or one that is not a number
Missing == -1

\* route.paths[0] of an answer with status '1': path.distance and
\* path.cost.duration, each of which may be missing
LivePaths ==
  { [distance |-> 1200, duration |-> 300], [distance |-> 1500, duration |-> 900],
    [distance |-> 1200, duration |-> Missing], [distance |-> Missing, duration |-> Missing] }

\* parseInt(path.distance) || 0 and path.cost?.duration || 0
OrZero(v) == IF v = Missing THEN 0 ELSE v

\* parseResponse for an answer with a path; the steps are left out
parseResponse(path) ==
  RouteResult(OrZero(path.distance), OrZero(path.duration), << >>, "live")

\* how the live call goes: the request rejects, times out, answers a status other
\* than 200, a body that does not parse, an API status other than '1', no path
LiveFailures == {"network", "timeout", "status", "parse", "apiStatus", "noPaths"}

RouteOrigins == { LatLng(312304, 1214737) }

\* the origin itself, toilet_001, a place 1000 m away, toilet_005
RouteDestinations ==
  { LatLng(312304, 1214737), LatLng(312317, 1214750), LatLng(312309, 1214842),
    LatLng(312198, 1214762) }

RouteRequest(origin, destination, mode) ==
  [origin |-> origin, destination |-> destination, travelMode |-> mode]

RouteRequests ==
  { RouteRequest(o, d, m) : o \in RouteOrigins, d \in RouteDestinations, m \in TravelModes }

NoRequest == RouteRequest(LatLng(0, 0), LatLng(0, 0), "walking")

\* a catch block that lets the error of the live call go on to the caller
RouteCatch_Rethrow(req) == [rpc |-> "failed", route |-> NoRoute]

\* the catch of planRoute: return this.getEstimatedRoute(request)
RouteCatch(req) == [rpc |-> "done", route |-> getEstimatedRoute(req)]

\* planRoute is called: without a key it returns the estimate at once, with a
\* key it sends the request
PlanRoute ==
  /\ LaunchIdle
  /\ SearchIdle
  /\ LocalIdle
  /\ RouteIdle
  /\ NavIdle
  /\ GeoIdle
  /\ \E key \in ApiKeys, req \in RouteRequests :
       /\ apiKey' = key
       /\ request' = req
       /\ IF key = ""
            THEN /\ rpc' = "done"
                 /\ route' = getEstimatedRoute(req)
                 /\ UNCHANGED routeHttp
            ELSE /\ rpc' = "requesting"
                 /\ routeHttp' = createHttp(routeHttp)
                 /\ UNCHANGED route
  /\ UNCHANGED liveOutcome
  /\ UNCHANGED exceptRoute

\* makeRequest and parseResponse settle: a failure is caught by planRoute, a
\* path is returned as the route
RequestSettles ==
  /\ rpc = "requesting"
  /\ \/ \E f \in LiveFailures :
          LET go == RouteCatch(request)
          IN  /\ liveOutcome' = f
              /\ rpc' = go.rpc
              /\ route' = go.route
              /\ routeHttp' = AfterMakeRequest(routeHttp, TRUE)
     \/ \E path \in LivePaths :
          /\ liveOutcome' = "ok"
          /\ rpc' = "done"
          /\ route' = parseResponse(path)
          /\ routeHttp' = AfterMakeRequest(routeHttp, FALSE)
  /\ UNCHANGED <<apiKey, request>>
  /\ UNCHANGED exceptRoute

-----------------------------------------------------------------------------
(* openNavigationWithPlanning (the draft with the route check) *)

\* timeLimit?: number, in minutes: absent, 0, or one of the limits on offer
TimeLimits == {0, 2, 5, 10}

\* a string holding a surrogate code unit without its pair; a name read from
\* a provider answer can be one (JSON.parse accepts the escape \uD800 alone)
LoneSurrogate == "U+D800"

\* destinationName: a name as the providers give it, or a malformed one
DestinationNames == {"WC", LoneSurrogate}

\* encodeURIComponent throws URIError on a string with a lone surrogate
ThrowsURIError(s) == s = LoneSurrogate

\* the arguments of openNavigationWithPlanning; hasLimit and hasOrigin tell
\* whether the optional timeLimit and origin were given
NavArgs(destination, destinationName, mode, hasLimit, timeLimit, hasOrigin, origin) ==
  [destination |-> destination, destinationName |-> destinationName,
   travelMode |-> mode, hasLimit |-> hasLimit,
   timeLimit |-> timeLimit, hasOrigin |-> hasOrigin, origin |-> origin]

NavCalls ==
  { NavArgs(d, n, m, hl, IF hl THEN tl ELSE 0, ho, IF ho THEN o ELSE LatLng(0, 0)) :
      d \in RouteDestinations, n \in DestinationNames, m \in TravelModes,
      hl \in BOOLEAN, tl \in TimeLimits, ho \in BOOLEAN, o \in RouteOrigins }

NoNav == NavArgs(LatLng(0, 0), "", "walking", FALSE, 0, FALSE, LatLng(0, 0))

\* if (origin && timeLimit): an absent limit and a limit of 0 are both falsy
WantsRouteCheck(a) == a.hasOrigin /\ a.hasLimit /\ a.timeLimit # 0

\* const routeRequest: RouteRequest = { origin, destination, travelMode, timeLimit }
RouteRequestOf(a) == RouteRequest(a.origin, a.destination, a.travelMode)

\* what routeService.planRoute can resolve with: the estimate, or a live path
PlanResults(req) == { getEstimatedRoute(req) } \cup { parseResponse(path) : path \in LivePaths }

\* estimatedMinutes > timeLimit, with estimatedMinutes = routeResult.duration / 60
ExceedsLimit(r, timeLimit) == r.duration > 60 * timeLimit

\* one line of what openNavigationWithPlanning did: op is "planRoute",
\* "warnExceeds" or "startAbility"; target is the application asked for
NavEvent(op, target, res) == [op |-> op, target |-> target, res |-> res]

\* the schemes of the candidates of openExternalNavigation, in their order
ExternalSchemes == << "amapuri", "qqmap", "baidumap", "geo", "https" >>

LaunchOutcomes == {"ok", "fail"}

\* openNavigationWithPlanning is called: with an origin and a time limit it asks
\* for the route first, otherwise it starts the Petal map at once
OpenNavigationWithPlanning ==
  /\ LaunchIdle
  /\ SearchIdle
  /\ LocalIdle
  /\ RouteIdle
  /\ NavIdle
  /\ GeoIdle
  /\ \E a \in NavCalls :
       /\ nav' = a
       /\ IF WantsRouteCheck(a)
            THEN /\ npc' = "planning"
                 /\ navTrace' = << NavEvent("planRoute", "amap", "start") >>
            ELSE /\ npc' = "petal"
                 /\ navTrace' = << NavEvent("startAbility", "petal", "start") >>
  /\ UNCHANGED <<routeResult, nidx, navReturn>>
  /\ UNCHANGED exceptNav

\* planRoute resolves: a route over the limit is warned about, and the Petal map
\* is started in either case
PlanningSettles ==
  /\ npc = "planning"
  /\ \E r \in PlanResults(RouteRequestOf(nav)) :
       /\ routeResult' = r
       /\ navTrace' = navTrace
            \o (IF ExceedsLimit(r, nav.timeLimit)
                  THEN << NavEvent("warnExceeds", "", "") >> ELSE << >>)
            \o << NavEvent("startAbility", "petal", "start") >>
  /\ npc' = "petal"
  /\ UNCHANGED <<nav, nidx, navReturn>>
  /\ UNCHANGED exceptNav

\* context.startAbility(petalMapWant) settles: true, or openExternalNavigation,
\* which encodes the name before its loop and outside every try
PetalSettles ==
  /\ npc = "petal"
  /\ \E out \in LaunchOutcomes :
       IF out = "ok"
         THEN /\ npc' = "done"
              /\ navReturn' = "true"
              /\ navTrace' = Append(navTrace, NavEvent("startAbility", "petal", "ok"))
              /\ UNCHANGED nidx
       ELSE IF ThrowsURIError(nav.destinationName)
         THEN /\ npc' = "done"
              /\ navReturn' = "URIError"
              /\ navTrace' = Append(navTrace, NavEvent("startAbility", "petal", "fail"))
              /\ UNCHANGED nidx
         ELSE /\ npc' = "external"
              /\ nidx' = 1
              /\ navTrace' = navTrace
                   \o << NavEvent("startAbility", "petal", "fail"),
                         NavEvent("startAbility", ExternalSchemes[1], "start") >>
              /\ UNCHANGED navReturn
  /\ UNCHANGED <<nav, routeResult>>
  /\ UNCHANGED exceptNav

\* ctx.startAbility(want) of openExternalNavigation settles: true on success,
\* the next candidate on failure, false after the last one
ExternalSettles ==
  /\ npc = "external"
  /\ \E out \in LaunchOutcomes :
       LET settled == Append(navTrace, NavEvent("startAbility", ExternalSchemes[nidx], out))
       IN  IF out = "ok"
             THEN /\ npc' = "done"
                  /\ navReturn' = "true"
                  /\ navTrace' = settled
                  /\ UNCHANGED nidx
             ELSE IF nidx < Len(ExternalSchemes)
               THEN /\ nidx' = nidx + 1
                    /\ navTrace' = Append(settled,
                         NavEvent("startAbility", ExternalSchemes[nidx + 1], "start"))
                    /\ UNCHANGED <<npc, navReturn>>
               ELSE /\ npc' = "done"
                    /\ navReturn' = "false"
                    /\ navTrace' = settled
                    /\ UNCHANGED nidx
  /\ UNCHANGED <<nav, routeResult>>
  /\ UNCHANGED exceptNav

-----------------------------------------------------------------------------
(* HarmonyGeo: getCurrentLocation and getCurrentLatLng (common/geo.ts) *)

\* geoLocationManager.isLocationEnabled: it returns true or false, it is not a
\* function of this platform version, or it throws
SwitchStates == {"on", "off", "absent", "throws"}

\* what checkLocationPermission returns
PermissionStates == {"granted", "denied", "not_determined"}

GeoEnv(op, switch, permission) == [op |-> op, switch |-> switch, permission |-> permission]

NoGeo == GeoEnv("", "", "")

\* the code field of createLocationError: `LOCATION_${code}`
LocationCode(code) ==
  CASE code = "PERMISSION_DENIED" -> "LOCATION_PERMISSION_DENIED"
    [] code = "SERVICE_DISABLED" -> "LOCATION_SERVICE_DISABLED"
    [] OTHER -> "LOCATION_LOCATION_ERROR"

\* createLocationError(code, message); the message is kept by its name
createLocationError(code, message) ==
  [code |-> LocationCode(code), message |-> message, retryable |-> code # "PERMISSION_DENIED"]

\* an error of the platform or a plain Error, passed on as it is
PlainError(message) == [code |-> "", message |-> message, retryable |-> FALSE]

NoError == [code |-> "", message |-> "", retryable |-> FALSE]

GeoResult(state, error) == [state |-> state, error |-> error]

NotSettled == GeoResult("", NoError)

Resolved == GeoResult("resolved", NoError)

Rejected(error) == GeoResult("rejected", error)

\* getCurrentLocation, the check of the switch: 'throw new Error(...)' for
\* enabled === false is inside the try whose 'catch (_) {}' is empty, so no
\* value of the switch ends the call
SwitchErrorSurfaces(switch) == FALSE

\* what a location request can do
RequestOutcomes == {"location", "rejects"}

\* getCurrentLocation is called: the switch is read and the high-accuracy
\* request is issued
GetCurrentLocation ==
  /\ LaunchIdle
  /\ SearchIdle
  /\ LocalIdle
  /\ RouteIdle
  /\ NavIdle
  /\ GeoIdle
  /\ \E sw \in SwitchStates :
       /\ geoEnv' = GeoEnv("getCurrentLocation", sw, "")
       /\ IF sw = "off" /\ SwitchErrorSurfaces(sw)
            THEN /\ gpc' = "done"
                 /\ geoRequests' = << >>
                 /\ geoResult' = Rejected(PlainError("location service not enabled"))
            ELSE /\ gpc' = "highAcc"
                 /\ geoRequests' = << "ACCURACY" >>
                 /\ geoResult' = NotSettled
  /\ UNCHANGED exceptGeo

\* the high-accuracy request settles: the location is returned, or the
\* low-power request is issued from the catch
HighAccSettles ==
  /\ gpc = "highAcc"
  /\ \E out \in RequestOutcomes :
       IF out = "location"
         THEN /\ gpc' = "done"
              /\ geoResult' = Resolved
              /\ UNCHANGED geoRequests
         ELSE /\ gpc' = "lowPower"
              /\ geoRequests' = Append(geoRequests, "LOW_POWER")
              /\ UNCHANGED geoResult
  /\ UNCHANGED geoEnv
  /\ UNCHANGED exceptGeo

\* the low-power request settles: its location or its error is the result
LowPowerSettles ==
  /\ gpc = "lowPower"
  /\ \E out \in RequestOutcomes :
       geoResult' = IF out = "location" THEN Resolved
                    ELSE Rejected(PlainError("BusinessError"))
  /\ gpc' = "done"
  /\ UNCHANGED <<geoEnv, geoRequests>>
  /\ UNCHANGED exceptGeo

\* isLocationServiceEnabled: the switch, false when reading it throws
isLocationServiceEnabled(switch) == switch = "on"

\* the error thrown inside the try of getCurrentLatLng before the request
\* ("" when none): permission first, then the switch
PreconditionError(env) ==
  IF env.permission # "granted" THEN "PERMISSION_DENIED"
  ELSE IF ~isLocationServiceEnabled(env.switch) THEN "SERVICE_DISABLED"
  ELSE ""

\* the catch of getCurrentLatLng: whatever was thrown in the try, it throws
\* createLocationError('LOCATION_ERROR', ERROR_MESSAGES.LOCATION_FAILED)
getCurrentLatLng_Catch(code) == createLocationError("LOCATION_ERROR", "ERROR_MESSAGES.LOCATION_FAILED")

\* what the callback of geoLocationManager.getCurrentLocation is given
CallbackOutcomes == {"location", "err", "null"}

\* getCurrentLatLng is called: permission and switch are checked and, if both
\* allow it, the request is issued
GetCurrentLatLng ==
  /\ LaunchIdle
  /\ SearchIdle
  /\ LocalIdle
  /\ RouteIdle
  /\ NavIdle
  /\ GeoIdle
  /\ \E sw \in SwitchStates, perm \in PermissionStates :
       LET env == GeoEnv("getCurrentLatLng", sw, perm)
       IN  /\ geoEnv' = env
           /\ IF PreconditionError(env) # ""
                THEN /\ gpc' = "done"
                     /\ geoRequests' = << >>
                     /\ geoResult' = Rejected(getCurrentLatLng_Catch(PreconditionError(env)))
                ELSE /\ gpc' = "locating"
                     /\ geoRequests' = << "NAVIGATION" >>
                     /\ geoResult' = NotSettled
  /\ UNCHANGED exceptGeo

\* the callback of the request runs; the promise was returned without await,
\* so its rejection does not pass through the catch
LocationCallback ==
  /\ gpc = "locating"
  /\ \E out \in CallbackOutcomes :
       geoResult' = CASE out = "location" -> Resolved
                      [] out = "err" -> Rejected(createLocationError("LOCATION_ERROR", "locate failed: err.message"))
                      [] OTHER -> Rejected(createLocationError("LOCATION_ERROR", "no location"))
  /\ gpc' = "done"
  /\ UNCHANGED <<geoEnv, geoRequests>>
  /\ UNCHANGED exceptGeo

-----------------------------------------------------------------------------
(* MapKitAdapter (common/mapKitAdapter.ts) *)

\* highlightedMarkerId = null
NoMarker == 0

\* pendingCameraPosition = undefined; a position is named by the number of the
\* moveCamera call that asked for it
NoPosition == 0

\* what a call into the map controller can do
PlatformOutcomes == {"ok", "throws"}

Attached == mapController = "attached"

\* setCameraPosition: nothing without a controller, else the controller is
\* asked to move (animateCamera)
setCameraPosition(moves, position, attached) ==
  IF attached THEN Append(moves, position) ELSE moves

\* moveCamera: without a controller the position is saved for later and
\* replaces the one saved before; with one it is applied
MoveCamera ==
  /\ moveRequests < MaxMoves
  /\ moveRequests' = moveRequests + 1
  /\ IF ~Attached
       THEN /\ pendingCameraPosition' = moveRequests + 1
            /\ lastSaved' = moveRequests + 1
            /\ UNCHANGED cameraMoves
       ELSE /\ cameraMoves' = setCameraPosition(cameraMoves, moveRequests + 1, TRUE)
            /\ UNCHANGED <<pendingCameraPosition, lastSaved>>
  /\ UNCHANGED <<mapController, markers, highlightedMarkerId, markerIdCounter, cameraTimers>>
  /\ UNCHANGED exceptAdapter

\* attachController: the controller is kept; inside the try the call of
\* setMyLocationEnabled(false) comes first and, if it does not throw, a saved
\* position is taken out of its slot and a 200 ms timer is set for it
AttachController ==
  /\ mapController' = "attached"
  /\ \E out \in PlatformOutcomes :
       IF out = "ok" /\ pendingCameraPosition # NoPosition
         THEN /\ cameraTimers' = cameraTimers \cup {pendingCameraPosition}
              /\ pendingCameraPosition' = NoPosition
         ELSE UNCHANGED <<cameraTimers, pendingCameraPosition>>
  /\ UNCHANGED <<markers, highlightedMarkerId, markerIdCounter, cameraMoves, moveRequests,
                 lastSaved>>
  /\ UNCHANGED exceptAdapter

\* a timer of attachController fires: this.setCameraPosition(position, animated)
CameraTimerFires ==
  /\ \E position \in cameraTimers :
       /\ cameraTimers' = cameraTimers \ {position}
       /\ cameraMoves' = setCameraPosition(cameraMoves, position, Attached)
  /\ UNCHANGED <<mapController, markers, highlightedMarkerId, markerIdCounter,
                 pendingCameraPosition, moveRequests, lastSaved>>
  /\ UNCHANGED exceptAdapter

\* addMarker: '' without a controller; else the counter is raised and the
\* marker is kept unless the controller throws
AddMarker ==
  /\ markerIdCounter < MaxMarkers
  /\ \E out \in PlatformOutcomes :
       IF ~Attached
         THEN UNCHANGED <<markers, markerIdCounter>>
         ELSE /\ markerIdCounter' = markerIdCounter + 1
              /\ markers' = IF out = "ok" THEN markers \cup {markerIdCounter + 1} ELSE markers
  /\ UNCHANGED <<mapController, highlightedMarkerId, pendingCameraPosition, cameraTimers,
                 cameraMoves, moveRequests, lastSaved>>
  /\ UNCHANGED exceptAdapter

\* a removal that leaves the highlight as it is
AfterRemove_KeepHighlight(ms, hl, markerId) ==
  [markers |-> ms \ {markerId}, highlightedMarkerId |-> hl]

\* removeMarker after the controller call: this.markers.delete(markerId);
\* if (this.highlightedMarkerId === markerId) this.highlightedMarkerId = null
AfterRemove(ms, hl, markerId) ==
  [markers |-> ms \ {markerId},
   highlightedMarkerId |-> IF hl = markerId THEN NoMarker ELSE hl]

\* removeMarker: nothing without a controller, for an unknown id, or when the
\* controller throws
RemoveMarker ==
  /\ \E markerId \in 1..MaxMarkers, out \in PlatformOutcomes :
       IF Attached /\ markerId \in markers /\ out = "ok"
         THEN LET after == AfterRemove(markers, highlightedMarkerId, markerId)
              IN  /\ markers' = after.markers
                  /\ highlightedMarkerId' = after.highlightedMarkerId
         ELSE UNCHANGED <<markers, highlightedMarkerId>>
  /\ UNCHANGED <<mapController, markerIdCounter, pendingCameraPosition, cameraTimers,
                 cameraMoves, moveRequests, lastSaved>>
  /\ UNCHANGED exceptAdapter

\* highlightMarker: nothing without a controller; else the highlight is
\* cleared and set to the marker if it exists
HighlightMarker ==
  /\ \E markerId \in 1..MaxMarkers :
       highlightedMarkerId' =
         IF ~Attached THEN highlightedMarkerId
         ELSE IF markerId \in markers THEN markerId
         ELSE NoMarker
  /\ UNCHANGED <<mapController, markers, markerIdCounter, pendingCameraPosition, cameraTimers,
                 cameraMoves, moveRequests, lastSaved>>
  /\ UNCHANGED exceptAdapter

\* clearHighlight
ClearHighlight ==
  /\ highlightedMarkerId' = NoMarker
  /\ UNCHANGED <<mapController, markers, markerIdCounter, pendingCameraPosition, cameraTimers,
                 cameraMoves, moveRequests, lastSaved>>
  /\ UNCHANGED exceptAdapter

\* clearMarkers: nothing without a controller or when the controller throws;
\* else the map and the highlight are emptied
AfterClearMarkers(ms, hl, attached, out) ==
  IF attached /\ out = "ok"
    THEN [markers |-> {}, highlightedMarkerId |-> NoMarker]
    ELSE [markers |-> ms, highlightedMarkerId |-> hl]

ClearMarkers ==
  /\ \E out \in PlatformOutcomes :
       LET after == AfterClearMarkers(markers, highlightedMarkerId, Attached, out)
       IN  /\ markers' = after.markers
           /\ highlightedMarkerId' = after.highlightedMarkerId
  /\ UNCHANGED <<mapController, markerIdCounter, pendingCameraPosition, cameraTimers,
                 cameraMoves, moveRequests, lastSaved>>
  /\ UNCHANGED exceptAdapter

\* destroy: clearMarkers, then the controller is let go
Destroy ==
  /\ \E out \in PlatformOutcomes :
       LET after == AfterClearMarkers(markers, highlightedMarkerId, Attached, out)
       IN  /\ markers' = after.markers
           /\ highlightedMarkerId' = after.highlightedMarkerId
  /\ mapController' = "undefined"
  /\ UNCHANGED <<markerIdCounter, pendingCameraPosition, cameraTimers, cameraMoves,
                 moveRequests, lastSaved>>
  /\ UNCHANGED exceptAdapter

-----------------------------------------------------------------------------
(* SearchLogStore.append, several calls in flight *)

\* the calls of append that may be running at one time
Appenders == {1, 2}

NoLog == LogRecord(0, "", "", 0, 0)

\* the log of the n-th call of append
NewLog(n) == LogRecord(n, "appended", "", 0, 0)

\* how many calls of append were made so far
AppendCalls == Len(appended) + Cardinality({a \in Appenders : apc[a] # "idle"})

\* append(log) is called and awaits pref.get in getAll
AppendCalled(a) ==
  /\ apc[a] = "idle"
  /\ AppendCalls < MaxAppendCalls
  /\ apc' = [apc EXCEPT ![a] = "get"]
  /\ appending' = [appending EXCEPT ![a] = NewLog(AppendCalls + 1)]
  /\ overlapped' = (overlapped \/ \E b \in Appenders : apc[b] # "idle")
  /\ UNCHANGED <<prefLogs, reading, appended>>
  /\ UNCHANGED exceptAppend

\* pref.get resolves with the stored value; append awaits pref.put
GetSettles(a) ==
  /\ apc[a] = "get"
  /\ reading' = [reading EXCEPT ![a] = prefLogs]
  /\ apc' = [apc EXCEPT ![a] = "put"]
  /\ UNCHANGED <<prefLogs, appending, appended, overlapped>>
  /\ UNCHANGED exceptAppend

\* pref.put stores what was read, the log pushed and the list trimmed; append
\* awaits pref.flush
PutSettles(a) ==
  /\ apc[a] = "put"
  /\ prefLogs' = appendStored(reading[a], appending[a])
  /\ apc' = [apc EXCEPT ![a] = "flush"]
  /\ UNCHANGED <<reading, appending, appended, overlapped>>
  /\ UNCHANGED exceptAppend

\* pref.flush resolves and append returns
FlushSettles(a) ==
  /\ apc[a] = "flush"
  /\ appended' = Append(appended, appending[a])
  /\ apc' = [apc EXCEPT ![a] = "idle"]
  /\ UNCHANGED <<prefLogs, reading, appending, overlapped>>
  /\ UNCHANGED exceptAppend

-----------------------------------------------------------------------------
(* The specification *)

vars == <<launchVars, searchVars, localVars, routeVars, navVars, appendVars, geoVars, adapterVars, cancelled>>

\* stored logs before the request: corrupt, or up to MaxPreLogs old records
InitialStored ==
  {CorruptStored} \cup { Stored([k \in 1..n |-> OldRecord(k)]) : n \in 0..MaxPreLogs }

\* no request is running
NothingRuns ==
  /\ pc = "idle"
  /\ engine = ""
  /\ engineRead = ""
  /\ toilet = NoToilet
  /\ travelMode = "walking"
  /\ hasProbe = FALSE
  /\ candidates = << >>
  /\ idx = 0
  /\ trace = << >>
  /\ logInstance = FALSE
  /\ logsAtStart = prefLogs
  /\ logOutcome = ""
  /\ thrown = ""
  /\ spc = "idle"
  /\ overpassHttp = NoHttp
  /\ routeHttp = NoHttp
  /\ query = NoQuery
  /\ inTry = FALSE
  /\ searchTrace = << >>
  /\ response = << >>
  /\ result = << >>
  /\ lpc = "idle"
  /\ options = NoOptions
  /\ seedData = << >>
  /\ found = << >>
  /\ rpc = "idle"
  /\ apiKey = ""
  /\ request = NoRequest
  /\ liveOutcome = ""
  /\ route = NoRoute
  /\ npc = "idle"
  /\ nav = NoNav
  /\ routeResult = NoRoute
  /\ nidx = 0
  /\ navTrace = << >>
  /\ navReturn = ""
  /\ appended = << >>
  /\ overlapped = FALSE
  /\ mapController = "undefined"
  /\ markers = {}
  /\ highlightedMarkerId = NoMarker
  /\ markerIdCounter = 0
  /\ pendingCameraPosition = NoPosition
  /\ cameraTimers = {}
  /\ cameraMoves = << >>
  /\ moveRequests = 0
  /\ lastSaved = NoPosition
  /\ gpc = "idle"
  /\ geoEnv = NoGeo
  /\ geoRequests = << >>
  /\ geoResult = NotSettled
  /\ cancelled = FALSE

Init ==
  /\ prefLogs \in InitialStored
  /\ NothingRuns
  /\ apc = << >>
  /\ reading = << >>
  /\ appending = << >>

\* one request at a time: a request starts only while nothing else runs
Next ==
  \/ OpenNavigation
  \/ Probe
  \/ StartAbility
  \/ OpenLink
  \/ LogFailure
  \/ SearchNearbyToilets
  \/ SiteSettles
  \/ OverpassSettles
  \/ MockSettles
  \/ SearchToilets
  \/ SearchToiletsResumes
  \/ PlanRoute
  \/ RequestSettles
  \/ OpenNavigationWithPlanning
  \/ PlanningSettles
  \/ PetalSettles
  \/ ExternalSettles
  \/ GetCurrentLocation
  \/ HighAccSettles
  \/ LowPowerSettles
  \/ GetCurrentLatLng
  \/ LocationCallback

Spec == Init /\ [][Next]_vars

\* the log store under several calls of append: it holds nothing, nearly
\* LogCap or LogCap entries, or a value that does not parse
AppendStored ==
  {CorruptStored} \cup { Stored([k \in 1..n |-> OldRecord(k)]) : n \in {0, LogCap - 1, LogCap} }

AppendInit ==
  /\ prefLogs \in AppendStored
  /\ NothingRuns
  /\ apc = [a \in Appenders |-> "idle"]
  /\ reading = [a \in Appenders |-> Stored(<< >>)]
  /\ appending = [a \in Appenders |-> NoLog]

AppendNext ==
  \E a \in Appenders :
    \/ AppendCalled(a)
    \/ GetSettles(a)
    \/ PutSettles(a)
    \/ FlushSettles(a)

AppendSpec == AppendInit /\ [][AppendNext]_vars

\* a chain of strategies is between its call and its return
ChainRuns ==
  \/ pc \notin {"idle", "returned", "thrown"}
  \/ spc \notin {"idle", "done"}
  \/ rpc = "requesting"
  \/ npc \notin {"idle", "done"}

\* The user leaves the action that started a chain. openNavigation,
\* searchNearbyToilets, planRoute and openNavigationWithPlanning take no signal
\* or token and register no handler, so nothing of the program changes; the
\* event itself is kept.
Cancel ==
  /\ ~cancelled
  /\ ChainRuns
  /\ cancelled' = TRUE
  /\ UNCHANGED <<launchVars, searchVars, localVars, routeVars, navVars, appendVars, geoVars,
                 adapterVars>>

CancelNext == Next \/ Cancel

CancelSpec == Init /\ [][CancelNext]_vars

\* the map adapter under any sequence of its operations
AdapterInit == Init /\ prefLogs = Stored(<< >>)

AdapterNext ==
  \/ MoveCamera
  \/ AttachController
  \/ CameraTimerFires
  \/ AddMarker
  \/ RemoveMarker
  \/ HighlightMarker
  \/ ClearHighlight
  \/ ClearMarkers
  \/ Destroy

AdapterSpec == AdapterInit /\ [][AdapterNext]_vars

\* the awaits that end whatever the other side does: the Overpass request and
\* the route request carry readTimeout and connectTimeout and reject when these
\* pass, the mock data and the local provider wait for a timer. The site search
\* (site.nearbySearch) and the calls of the launcher (canOpenLink, startAbility,
\* openLink, the preferences) carry no time-out and end when the platform answers.
\* The two timers are named by their step of the program counter, which only
\* MockSettles and SearchToiletsResumes take and which is possible whenever
\* they are.
MockTimerFires == spc = "mock" /\ spc' = "done"

LocalTimerFires == lpc = "waiting" /\ lpc' = "done"

TimedAwaits ==
  /\ WF_vars(OverpassSettles)
  /\ WF_spc(MockTimerFires)
  /\ WF_lpc(LocalTimerFires)
  /\ WF_vars(RequestSettles)
  /\ WF_vars(PlanningSettles)

LiveSpec == Init /\ [][Next]_vars /\ TimedAwaits


-----------------------------------------------------------------------------
(* Reading the traces *)

IsLaunchOk(e) == e.op \in {"startAbility", "openLink"} /\ e.res = "ok"

\* the place of an event in the handling of one candidate
OpRank(e) ==
  CASE e.op = "try" -> 1
    [] e.op = "canOpenLink" -> 2
    [] e.op = "skip" -> 3
    [] e.op = "startAbility" -> 4
    [] e.op = "warn" /\ e.res = "startAbility" -> 5
    [] e.op = "openLink" -> 6
    [] e.op = "warn" /\ e.res = "openLink" -> 7

\* the place of an event in the whole dispatch: candidate first, then OpRank
Place(e) == 8 * e.i + OpRank(e)

\* the trace goes through the candidates, and through the steps of each, in one
\* direction only: nothing is done twice and nothing out of order
Forward == \A k \in 2..Len(trace) : Place(trace[k - 1]) < Place(trace[k])

\* position k ends the handling of a candidate without a launch: it is the skip
\* line, or the warning of a failed openLink that followed a failed startAbility
GivesUpAt(k) ==
  \/ trace[k].op = "skip"
  \/ /\ k > 3
     /\ trace[k] = Event("warn", trace[k].i, "openLink")
     /\ trace[k - 1] = Event("openLink", trace[k].i, "fail")
     /\ trace[k - 3] = Event("startAbility", trace[k].i, "fail")

\* the candidates tried so far, in order
Tried == SelectSeq(trace, LAMBDA e : e.op = "try")

LaunchEnded == pc \in {"returned", "thrown"}

\* every candidate was tried and none was launched
Exhausted == pc \in {"catch", "thrown"}

\* priority of a search strategy
Rank(st) == CASE st = "site" -> 1 [] st = "overpass" -> 2 [] st = "mock" -> 3

\* the strategies started so far, in order
Started == SelectSeq(searchTrace, LAMBDA e : e.ev = "start")

-----------------------------------------------------------------------------
(* C1..C10: MapLauncher.openNavigation and the search order *)

\* C1: once a candidate has been opened (startAbility or openLink succeeded),
\* nothing more is probed or launched and openNavigation returns normally: a
\* successful launch is always the last thing in the trace, with the call
\* returned and no error thrown.
C1_StopsAtFirstSuccess ==
  \A k \in 1..Len(trace) :
    IsLaunchOk(trace[k]) => /\ k = Len(trace)
                            /\ pc = "returned"
                            /\ thrown = ""

\* a launch succeeded on the second candidate through openLink, with later
\* candidates left untouched
C1_Witness ==
  /\ pc = "returned"
  /\ Len(candidates) = 6
  /\ trace[Len(trace)] = Event("openLink", 2, "ok")

\* C2: fallback chains run strictly in order.  In openNavigation the events go
\* forward only, and the first event of candidate j comes right after the skip
\* or the second failed launch of candidate j - 1; in searchNearbyToilets a
\* strategy other than the first starts only right after the strategy one rank
\* above (or the same strategy, asked again) threw or answered nothing.
C2_StrictlySequential ==
  /\ Forward
  /\ Len(trace) > 0 => trace[1] = Event("try", 1, "")
  /\ \A k \in 2..Len(trace) :
       trace[k].i # trace[k - 1].i =>
          /\ trace[k] = Event("try", trace[k - 1].i + 1, "")
          /\ GivesUpAt(k - 1)
  /\ Len(searchTrace) > 0 => searchTrace[1].s = "site" /\ searchTrace[1].ev = "start"
  /\ \A k \in 2..Len(searchTrace) :
       searchTrace[k].ev = "start" =>
          /\ searchTrace[k - 1].ev \in {"throws", "empty"}
          /\ Rank(searchTrace[k].s) > 1
          /\ \E m \in 1..(k - 1) :
               /\ Rank(searchTrace[m].s) = Rank(searchTrace[k].s) - 1
               /\ searchTrace[m].ev \in {"throws", "empty"}
  /\ \A k \in 2..Len(searchTrace) :
       searchTrace[k].ev # "start" =>
          /\ searchTrace[k - 1].ev = "start"
          /\ searchTrace[k - 1].s = searchTrace[k].s

\* the third candidate is being launched after the first was skipped and the
\* second failed both strategies
C2_Witness ==
  /\ pc = "startAbility"
  /\ idx = 3
  /\ trace[3] = Event("skip", 1, "")
  /\ \E k \in 1..Len(trace) : trace[k] = Event("openLink", 2, "fail")

\* the mock data were started after the site search answered nothing and both
\* Overpass calls threw
C2_WitnessSearch ==
  /\ spc = "mock"
  /\ searchTrace[2] = SearchEvent("site", "empty", 0)

\* schemes of the engine-specific links of an engine
EngineSchemes(eng) ==
  CASE eng = "amap" -> {"amapuri"}
    [] eng = "baidu" -> {"baidumap"}
    [] OTHER -> {"petalmaps", "mapapp"}

\* C3: the candidate list is never empty; its last element is the https web
\* fallback, the one before it the generic geo: link, and everything before
\* those is a deep link of the selected engine; each carries the destination.
C3_CandidateOrder ==
  pc # "idle" =>
    LET n == Len(candidates)
    IN  /\ n >= 2
        /\ candidates[n].scheme = "https"
        /\ candidates[n - 1].scheme = "geo"
        /\ \A k \in 1..(n - 2) : candidates[k].scheme \in EngineSchemes(engine)
        /\ \A k \in 1..n : /\ candidates[k].lat = toilet.latitude
                           /\ candidates[k].lon = toilet.longitude

\* a list was built for an engine value that is none of the known ones
C3_Witness ==
  /\ pc # "idle"
  /\ engine = "tencent"
  /\ travelMode = "cycling"
  /\ Len(candidates) = 6

\* C4: exhaustion is reached only after every candidate was tried exactly once,
\* in order (as many "try open" lines as candidates) and given up; and at no
\* time was a candidate tried, probed or launched a second time.
C4_ExhaustionAfterAll ==
  /\ Exhausted =>
       /\ Len(Tried) = Len(candidates)
       /\ \A k \in 1..Len(Tried) : Tried[k].i = k
       /\ GivesUpAt(Len(trace))
       /\ trace[Len(trace)].i = Len(candidates)
  /\ Forward

\* all six candidates of the Huawei list failed, some skipped and some launched
C4_Witness ==
  /\ pc = "thrown"
  /\ Len(candidates) = 6
  /\ trace[3] = Event("skip", 1, "")
  /\ trace[Len(trace)] = Event("warn", 6, "openLink")

\* the records the store holds now that it did not hold when the request began
\* (the store stays below LogCap here, so nothing is trimmed away)
NewRecords ==
  SubSeq(getAll(prefLogs), Len(getAll(logsAtStart)) + 1, Len(getAll(prefLogs)))

\* the stored log is the old one followed by exactly the records of NewRecords
OldKept ==
  /\ Len(getAll(prefLogs)) >= Len(getAll(logsAtStart))
  /\ SubSeq(getAll(prefLogs), 1, Len(getAll(logsAtStart))) = getAll(logsAtStart)

CarriesFailure(r) ==
  /\ r.centerLatitude = toilet.latitude
  /\ r.centerLongitude = toilet.longitude
  /\ r.message.engine = engine
  /\ r.message.text = "all navigation attempts failed"

LogWritten == logOutcome \in {"ok", "flushThrows"}

\* C5 as stated: a finished dispatch has appended exactly one failure record if
\* every candidate failed, and none otherwise.
C5_Original ==
  LaunchEnded =>
    /\ OldKept
    /\ Len(NewRecords) = (IF pc = "thrown" THEN 1 ELSE 0)

\* C5 as it holds: the store is untouched until every candidate has failed; then
\* exactly one write is attempted and, if the store takes it, exactly one record
\* is appended, carrying the destination latitude/longitude and the engine; if
\* the store throws (getPreferences, get or put) the failure to log is swallowed
\* and no record is appended.  A dispatch that succeeds appends nothing.
C5_OneRecordOnExhaustion ==
  /\ pc # "thrown" => prefLogs = logsAtStart /\ logOutcome = ""
  /\ pc = "thrown" =>
       /\ logOutcome # ""
       /\ OldKept
       /\ LogWritten => /\ Len(NewRecords) = 1
                        /\ CarriesFailure(NewRecords[1])
       /\ ~ LogWritten => prefLogs = logsAtStart

\* every candidate failed and the record went into a store that already held one
C5_Witness ==
  /\ pc = "thrown"
  /\ logOutcome = "ok"
  /\ Len(getAll(logsAtStart)) = 1
  /\ Len(getAll(prefLogs)) = 2
  /\ engine = "baidu"

C7_NegativeProbeSkips ==
  \A k \in 1..Len(trace) :
    (trace[k].op = "canOpenLink" /\ trace[k].res = "false") =>
      LET i == trace[k].i
      IN  /\ \A m \in 1..Len(trace) :
               trace[m].i = i => trace[m].op \in {"try", "canOpenLink", "skip"}
          /\ Len(trace) > k
          /\ trace[k + 1] = Event("skip", i, "")
          /\ IF i < Len(candidates)
               THEN Len(trace) >= k + 2 /\ trace[k + 2] = Event("try", i + 1, "")
               ELSE Len(trace) = k + 1 /\ Exhausted

\* the first candidate was skipped on a negative probe and the second launched
C7_Witness ==
  /\ pc = "returned"
  /\ trace[2] = Event("canOpenLink", 1, "false")
  /\ trace[Len(trace)] = Event("startAbility", 2, "ok")

\* C8: a candidate goes on to the launch unless canOpenLink returned false: after
\* a true answer, on a platform without canOpenLink, and after a probe that
\* threw, startAbility is what comes next; a skip happens only right after a
\* false answer.
C8_OnlyFalseProbeSkips ==
  /\ \A k \in 1..Len(trace) :
       trace[k].op = "try" =>
          IF k = Len(trace)
            THEN idx = trace[k].i /\ (pc = "probe" \/ (pc = "startAbility" /\ ~ hasProbe))
            ELSE trace[k + 1].i = trace[k].i /\
                 trace[k + 1].op = (IF hasProbe THEN "canOpenLink" ELSE "startAbility")
  /\ \A k \in 1..Len(trace) :
       (trace[k].op = "canOpenLink" /\ trace[k].res # "false") =>
          IF k = Len(trace)
            THEN idx = trace[k].i /\ pc = "startAbility"
            ELSE trace[k + 1].i = trace[k].i /\ trace[k + 1].op = "startAbility"
  /\ \A k \in 1..Len(trace) :
       trace[k].op = "skip" =>
          k > 1 /\ trace[k - 1] = Event("canOpenLink", trace[k].i, "false")

\* the probe of the first candidate threw and the candidate was launched
C8_Witness ==
  /\ Len(trace) >= 3
  /\ trace[2] = Event("canOpenLink", 1, "throws")
  /\ trace[3] = Event("startAbility", 1, "ok")

\* a platform without canOpenLink: the launch was attempted without any probe
C8_WitnessNoProbe ==
  /\ ~ hasProbe
  /\ pc = "returned"
  /\ trace[Len(trace)] = Event("startAbility", 2, "ok")

\* C9: openLink is called for a candidate only right after its startAbility
\* failed; after a successful startAbility nothing more is called; and the loop
\* leaves a launched candidate behind only when both strategies failed for it.
C9_StartAbilityThenOpenLink ==
  /\ \A k \in 1..Len(trace) :
       trace[k].op = "openLink" =>
          /\ k > 2
          /\ trace[k - 2] = Event("startAbility", trace[k].i, "fail")
          /\ trace[k - 1] = Event("warn", trace[k].i, "startAbility")
  /\ \A k \in 1..Len(trace) :
       trace[k].op = "startAbility" =>
          IF trace[k].res = "ok"
            THEN k = Len(trace)
            ELSE /\ Len(trace) > k
                 /\ IF Len(trace) = k + 1
                      THEN pc = "openLink" /\ idx = trace[k].i
                      ELSE trace[k + 2].op = "openLink" /\ trace[k + 2].i = trace[k].i
  /\ \A k \in 2..Len(trace) :
       (trace[k].op = "try" /\ trace[k - 1].op # "skip") => GivesUpAt(k - 1)
  /\ (Exhausted /\ trace[Len(trace)].op # "skip") => GivesUpAt(Len(trace))

\* startAbility failed and openLink opened the first candidate
C9_Witness ==
  /\ pc = "returned"
  /\ idx = 1
  /\ trace[Len(trace)] = Event("openLink", 1, "ok")
  /\ trace[Len(trace) - 2] = Event("startAbility", 1, "fail")

-----------------------------------------------------------------------------
(* C11..C17: what searchNearbyToilets returns *)

\* the search has resolved with the list of strategy st
ReturnedBy(st) ==
  spc = "done" /\ searchTrace[Len(searchTrace)] = SearchEvent(st, "returns", 0)

\* the distance field of list is in ascending order
Ascending(list) == \A k \in 2..Len(list) : list[k - 1].distance <= list[k].distance

\* the elements of a raw response that have a coordinate
Located(items) == SelectSeq(items, LAMBDA el : el.hasLoc)

\* the distance from the centre of the query to the coordinate of a raw element
Away(el) == haversine(query.latitude, query.longitude, el.lat, el.lon)

\* C11: within one call of searchNearbyToilets no strategy (site search,
\* Overpass query, mock data) is started more than once.
C11_EachStrategyOnce ==
  \A i, j \in 1..Len(searchTrace) :
    (searchTrace[i].ev = "start" /\ searchTrace[j].ev = "start"
       /\ searchTrace[i].s = searchTrace[j].s) => i = j

\* C12: a strategy whose answer holds no point after the filter is passed over:
\* an empty list is returned only by the mock data, the last strategy.
C12_EmptyOnlyAfterAll == (spc = "done" /\ result = << >>) => ReturnedBy("mock")

\* C13: searchNearbyToilets never rejects: every error of the site search or of
\* the Overpass query is followed at once by the start of another strategy, the
\* mock data always answer, and the call ends with a list that a strategy
\* returned.
C13_NeverSurfaces ==
  /\ spc \in {"idle", "site", "overpass", "mock", "done"}
  /\ \A k \in 1..Len(searchTrace) :
       searchTrace[k].ev = "throws" =>
         /\ searchTrace[k].s \in {"site", "overpass"}
         /\ k < Len(searchTrace)
         /\ searchTrace[k + 1].ev = "start"
  /\ spc \in {"site", "overpass", "mock"} =>
       searchTrace[Len(searchTrace)] \in
         { SearchEvent(spc, "start", ClampRadius(query.radiusMeters)),
           SearchEvent(spc, "start", query.radiusMeters) }
  /\ spc = "done" => searchTrace[Len(searchTrace)].ev = "returns"

\* the site search threw, the Overpass query threw, and the mock data were
\* returned
C13_Witness ==
  /\ ReturnedBy("mock")
  /\ \E k \in 1..Len(searchTrace) : searchTrace[k] = SearchEvent("site", "throws", 0)
  /\ \E k \in 1..Len(searchTrace) : searchTrace[k] = SearchEvent("overpass", "throws", 0)
  /\ Len(result) > 0

\* C14: every list a search returns - from the site search, the Overpass query,
\* the mock data, or LocalProvider.searchToilets - is in ascending order of the
\* distance field.
C14_SortedByDistance == Ascending(result) /\ Ascending(found)

\* the site search answered a farther point before a nearer one, and the list
\* returned holds both, the nearer first
C14_Witness ==
  /\ ReturnedBy("site")
  /\ Len(response) = 2 /\ Len(result) = 2
  /\ Away(response[1]) > Away(response[2])
  /\ result[1].id = response[2].id

\* the seed data, which LocalProvider keeps in no order, returned in order
C14_WitnessLocal ==
  /\ lpc = "done"
  /\ Len(found) >= 3
  /\ found[2].id # seedData[2].id

\* C15: every point returned has a distance field not above the radius the
\* caller gave, and a located point of the response is returned whenever its
\* distance is not above that radius (the bound included), whatever radius,
\* clamped to [50, 3000], was sent to the provider.
C15_CallerRadiusFilters ==
  /\ \A k \in 1..Len(result) : result[k].distance <= query.radiusMeters
  /\ \A k \in 1..Len(found) : found[k].distance <= options.radiusM
  /\ (ReturnedBy("site") \/ ReturnedBy("overpass")) =>
       \A k \in 1..Len(response) :
         (response[k].hasLoc /\ Away(response[k]) <= query.radiusMeters)
           => \E j \in 1..Len(result) :
                result[j].id = response[k].id /\ result[j].distance = Away(response[k])

\* the caller asked for 5000 m, 3000 m were sent to Overpass, and a point 4448 m
\* away is returned
C15_Witness ==
  /\ ReturnedBy("overpass")
  /\ query.radiusMeters = 5000
  /\ \E k \in 1..Len(searchTrace) : searchTrace[k] = SearchEvent("overpass", "start", 3000)
  /\ \E j \in 1..Len(result) : result[j].distance > 3000

\* a point exactly on the radius of the caller is returned
C15_WitnessInclusive ==
  /\ ReturnedBy("overpass")
  /\ \E j \in 1..Len(result) : result[j].distance = query.radiusMeters

\* the caller asked for 30 m, 50 m were sent, and a point 146 m away was dropped
C15_WitnessBelow ==
  /\ ReturnedBy("site")
  /\ query.radiusMeters = 30
  /\ searchTrace[1].radius = 50
  /\ Len(Located(response)) > 0
  /\ result = << >>

\* C16: the distance field of every returned point, whichever strategy made it,
\* is the great-circle distance from the centre of the query to the coordinate
\* of that point, rounded to the metre.
C16_DistanceIsGreatCircle ==
  /\ \A k \in 1..Len(result) :
       result[k].distance = haversine(query.latitude, query.longitude,
                                      result[k].latitude, result[k].longitude)
  /\ \A k \in 1..Len(found) :
       found[k].distance = calculateDistance(options.center, found[k])

\* C17: an element of a response without a usable coordinate is dropped alone:
\* the search still returns with the list of that strategy, which holds exactly
\* the located elements within the radius and none of the others.
C17_BadElementDroppedAlone ==
  (ReturnedBy("site") \/ ReturnedBy("overpass")) =>
    /\ Len(result) =
         Len(SelectSeq(Located(response), LAMBDA el : Away(el) <= query.radiusMeters))
    /\ \A j \in 1..Len(result) :
         /\ result[j].distance # NaN
         /\ \E k \in 1..Len(response) : response[k].hasLoc /\ response[k].id = result[j].id

\* the site search answered an element without coordinate and one 146 m away:
\* the search returns the second alone
C17_Witness ==
  /\ ReturnedBy("site")
  /\ Len(response) = 2
  /\ ~response[1].hasLoc
  /\ Len(result) = 1
  /\ result[1].id = response[2].id
  /\ result[1].distance = 146

-----------------------------------------------------------------------------
(* C18: LocalProvider.searchToilets *)

\* the seed points within the radius of the search, in the order of the seed data
WithinSeeds ==
  SelectSeq(seedData,
            LAMBDA t : calculateDistance(options.center, t) <= options.radiusM)

IsFound(t) == \E k \in 1..Len(found) : found[k].id = t.id

\* C18: searchToilets returns the limit (20 when none is given) nearest seed
\* points within the radius, or all of them when they are fewer: no point left
\* out is nearer than a point returned; when no seed point is within the radius
\* the list is empty.
C18_NearestWithinLimit ==
  lpc = "done" =>
    /\ Len(found) = IF Len(WithinSeeds) < LimitOf(options)
                      THEN Len(WithinSeeds) ELSE LimitOf(options)
    /\ \A k \in 1..Len(found) :
         /\ \E n \in 1..Len(WithinSeeds) : WithinSeeds[n].id = found[k].id
         /\ \A j \in 1..Len(found) : found[j].id = found[k].id => j = k
    /\ \A n \in 1..Len(WithinSeeds) :
         ~IsFound(WithinSeeds[n]) =>
           \A k \in 1..Len(found) :
             found[k].distance <= calculateDistance(options.center, WithinSeeds[n])
    /\ Len(WithinSeeds) = 0 => found = << >>

\* more seed points are within the radius than the limit of 3 allows, and one
\* of the three returned comes after a left-out point in the seed data
C18_Witness ==
  /\ lpc = "done"
  /\ options.hasLimit /\ options.limit = 3
  /\ Len(found) = 3
  /\ Len(WithinSeeds) > 3
  /\ \E n \in 1..3 : ~IsFound(WithinSeeds[n])

\* the search of the test: no seed point within 5000 m of the centre
C18_WitnessEmpty ==
  /\ lpc = "done"
  /\ options.center = LatLng(399042, 1164074)
  /\ options.radiusM = 5000
  /\ found = << >>

\* no limit given: all seed points within the radius are returned
C18_WitnessDefault ==
  /\ lpc = "done"
  /\ ~options.hasLimit
  /\ Len(found) > 10

-----------------------------------------------------------------------------
(* C19, C20: RouteService.planRoute *)

\* the straight-line distance of the request, in decimetres
StraightLine == RouteService_calculateDistance(request.origin, request.destination)

\* C19: planRoute never rejects: without a key, and after every failure of the
\* live call, it resolves with the straight-line estimate; after a live answer
\* with a path it resolves with that path.
C19_PlanRouteNeverFails ==
  /\ rpc \in {"idle", "requesting", "done"}
  /\ liveOutcome # "" => rpc = "done"
  /\ rpc = "done" =>
       /\ Len(route.steps) > 0 \/ route.source = "live"
       /\ (apiKey = "" \/ liveOutcome \in LiveFailures) =>
            /\ route.source = "estimated"
            /\ route.distance = Round(StraightLine, 10)
       /\ liveOutcome = "ok" => route.source = "live"

\* the live call timed out and planRoute resolved with an estimate
C19_Witness ==
  /\ rpc = "done"
  /\ apiKey # ""
  /\ liveOutcome = "timeout"
  /\ route.source = "estimated"
  /\ route.distance > 0

\* C20 as stated: without a key, durationSeconds is exactly distanceMeters
\* divided by the speed of the mode (1.39 m/s walking, 4.17 m/s cycling).
C20_Original ==
  (rpc = "done" /\ apiKey = "") =>
    SpeedOf(request.travelMode) * route.duration = 100 * route.distance

\* C20: without a key, distance is the straight-line distance rounded to the
\* metre and duration is that distance, before rounding, divided by the speed of
\* the mode and rounded to the second: it lies within half a second of the
\* quotient.
C20_RoundedEstimate ==
  (rpc = "done" /\ apiKey = "") =>
    /\ route.source = "estimated"
    /\ route.distance = Round(StraightLine, 10)
    /\ 2 * Abs(SpeedOf(request.travelMode) * route.duration - 10 * StraightLine)
         <= SpeedOf(request.travelMode)
    /\ route.steps = << RouteStep(route.distance, route.duration) >>

\* 1000 m on foot without a key: 719 s
C20_Witness ==
  /\ rpc = "done"
  /\ apiKey = ""
  /\ request.travelMode = "walking"
  /\ route.distance = 1000
  /\ route.duration = 719

-----------------------------------------------------------------------------
(* C21..C23, C30: the route check *)

\* what a caller can read of the origin of a route: the source field when the
\* object has one
SourceTold(r) == IF "source" \in RouteResultFields THEN r.source ELSE "unknown"

\* C21: every result of planRoute tells its caller whether the routing service
\* or the analytic fallback produced it.
C21_SourceSurfaced == rpc = "done" => SourceTold(route) = route.source

\* startAbility was called for the destination, with the Petal map or any other
\* application
NavLaunched == \E k \in 1..Len(navTrace) : navTrace[k].op = "startAbility"

\* C22: with a time limit given, a destination whose route takes more minutes
\* than the limit is not navigated to.
C22_OverLimitNeverLaunched ==
  (nav.hasLimit /\ routeResult # NoRoute /\ ExceedsLimit(routeResult, nav.timeLimit))
    => ~NavLaunched

\* C23: without a time limit the route check is skipped and the destination is
\* used; with a limit of 0 minutes and a destination at a positive distance the
\* check is made and refuses the destination.
C23_ZeroLimitRejects ==
  /\ (npc # "idle" /\ ~nav.hasLimit) => (routeResult = NoRoute /\ NavLaunched)
  /\ (npc # "idle" /\ nav.hasLimit /\ nav.timeLimit = 0 /\ nav.hasOrigin
        /\ RouteService_calculateDistance(nav.origin, nav.destination) > 0)
       => ~NavLaunched

\* C30: a live route that planRoute returns has a duration and a distance: a
\* path without them is not returned as a route of 0 seconds or 0 metres.
C30_NoZeroLiveRoute ==
  (rpc = "done" /\ route.source = "live") => (route.duration > 0 /\ route.distance > 0)

-----------------------------------------------------------------------------
(* C27, C28: common/utils/haversine.ts *)

\* the place of a returned point in the seed data
SeedIndex(t) == CHOOSE n \in 1..Len(seedData) : seedData[n].id = t.id

\* C27: sortByDistance gives every point its distance from the centre and
\* returns the points in ascending order of it; points equally far away keep
\* the order they had in the input.
C27_StableAscending ==
  lpc = "done" =>
    /\ \A k \in 1..Len(found) :
         found[k].distance = calculateDistance(options.center, seedData[SeedIndex(found[k])])
    /\ \A k \in 2..Len(found) :
         \/ found[k - 1].distance < found[k].distance
         \/ /\ found[k - 1].distance = found[k].distance
            /\ SeedIndex(found[k - 1]) < SeedIndex(found[k])

\* "c", fourth in the input, comes first; "a" and "b", and "d" and "e", are
\* equally far away and stay in their input order
C27_Witness ==
  /\ lpc = "done"
  /\ Len(found) = 5
  /\ found[1].id = "c"
  /\ found[2].id = "a" /\ found[3].id = "b" /\ found[2].distance = found[3].distance
  /\ found[4].id = "d" /\ found[5].id = "e" /\ found[4].distance = found[5].distance

\* C28: calculateDistance(a, a) = 0 and calculateDistance(a, b) =
\* calculateDistance(b, a), for the centre of the search and every seed point.
C28_ZeroAndSymmetric ==
  lpc # "idle" =>
    /\ calculateDistance(options.center, options.center) = 0
    /\ \A k \in 1..Len(seedData) :
         /\ calculateDistance(seedData[k], seedData[k]) = 0
         /\ calculateDistance(options.center, seedData[k])
              = calculateDistance(seedData[k], options.center)
         /\ \A j \in 1..Len(seedData) :
              calculateDistance(seedData[k], seedData[j])
                = calculateDistance(seedData[j], seedData[k])

\* a search from Beijing over the seed points of Shanghai, more than 1000 km
\* away at another latitude
C28_Witness ==
  /\ lpc = "done"
  /\ options.center = LatLng(399042, 1164074)
  /\ calculateDistance(seedData[1], options.center) > 1000000

-----------------------------------------------------------------------------
(* C24, C25: the log store *)

\* the last LogCap entries of list
LastEntries(list) ==
  IF Len(list) <= LogCap THEN list ELSE SubSeq(list, Len(list) - LogCap + 1, Len(list))

AllAppendsReturned == apc # << >> /\ \A a \in Appenders : apc[a] = "idle"

\* C24: after appends made one after the other the stored log never holds
\* more than LogCap entries, and it holds the last LogCap of the entries stored
\* before followed by the appended ones, in the order of the appends.
C24_MostRecentKept ==
  /\ Len(getAll(prefLogs)) <= LogCap
  /\ (AllAppendsReturned /\ ~overlapped) =>
       getAll(prefLogs) = LastEntries(getAll(logsAtStart) \o appended)

\* three appends, one after the other, to a log of LogCap entries: the three
\* oldest entries are gone and the three new ones are the last
C24_Witness ==
  /\ AllAppendsReturned /\ ~overlapped
  /\ Len(getAll(logsAtStart)) = LogCap
  /\ Len(appended) = 3
  /\ getAll(prefLogs)[1] = OldRecord(4)
  /\ getAll(prefLogs)[LogCap] = NewLog(3)

\* C25: when two calls of append are in flight at the same time, both logs are
\* in the store once both calls have returned (the cap not being reached).
C25_NoAppendLost ==
  (AllAppendsReturned /\ Len(getAll(logsAtStart)) + Len(appended) <= LogCap) =>
    \A k \in 1..Len(appended) :
      \E n \in 1..Len(getAll(prefLogs)) : getAll(prefLogs)[n] = appended[k]

-----------------------------------------------------------------------------
(* C26: completion *)

LaunchRuns == pc \notin {"idle", "returned", "thrown"}

\* C26: a search, a route plan and a launch that were called return in the end,
\* also when a provider or a platform call never answers.
C26_EveryOperationCompletes ==
  /\ (spc # "idle") ~> (spc = "done")
  /\ (rpc # "idle") ~> (rpc = "done")
  /\ LaunchRuns ~> ~LaunchRuns

-----------------------------------------------------------------------------
(* C29: cancellation *)

\* how many strategies and candidates the chains have started
StepsStarted ==
  Len(SelectSeq(trace, LAMBDA e : e.op = "try"))
    + Len(SelectSeq(searchTrace, LAMBDA e : e.ev = "start"))
    + Len(SelectSeq(navTrace, LAMBDA e : e.res = "start"))

\* C29: once the user action is cancelled, no further strategy of a search and
\* no further candidate of a launch is started.
C29_NoStepAfterCancel == [][cancelled => StepsStarted' = StepsStarted]_vars

-----------------------------------------------------------------------------
(* C31, C32: the engine *)

\* the schemes of a list, in order
SchemesOf(list) == [k \in 1..Len(list) |-> list[k].scheme]

\* C31: the list holds one amapuri link for 'amap', one baidumap link for
\* 'baidu' and the four Petal/MapApp links in their order for every other
\* engine value, followed by geo and https: 3, 3 or 6 candidates, none of
\* another engine.
C31_EngineLinksByEngine ==
  pc # "idle" =>
    SchemesOf(candidates) =
      CASE engine = "amap" -> << "amapuri", "geo", "https" >>
        [] engine = "baidu" -> << "baidumap", "geo", "https" >>
        [] OTHER -> << "petalmaps", "petalmaps", "petalmaps", "mapapp", "geo", "https" >>

\* the four Petal/MapApp links were built for a stored value that names no
\* known engine, in the order routePlan, routePlan, navigation, mapapp
C31_Witness ==
  /\ pc # "idle"
  /\ engine = "tencent"
  /\ engineRead = "ok"
  /\ Len(candidates) = 6
  /\ candidates[2].form = "routePlan?destLat&destLng&destName&navType"
  /\ candidates[2].mode = "walk"
  /\ candidates[3].form = "navigation?dlat&dlon&dname&type"

\* C32: when the settings store was never initialised or its read fails, the
\* engine is 'huawei', the Huawei list is dispatched, and the only error
\* openNavigation can end with is the exhaustion of the candidates.
C32_EngineReadNeverThrows ==
  (pc # "idle" /\ engineRead # "ok") =>
    /\ engine = "huawei"
    /\ candidates = BuildCandidates("huawei", toilet, travelMode)
    /\ Len(trace) > 0 /\ trace[1] = Event("try", 1, "")
    /\ thrown \in {"", "all navigation attempts failed"}

\* the settings store was never initialised and a Petal link was launched
C32_Witness ==
  /\ engineRead = "noInstance"
  /\ pc = "returned"
  /\ candidates[idx].scheme = "petalmaps"

\* the read was rejected and the Huawei list was tried to its end
C32_WitnessRejects ==
  /\ engineRead = "getRejects"
  /\ pc = "thrown"
  /\ idx > Len(candidates)

-----------------------------------------------------------------------------
(* C33: a failed log write *)

LogWriteFailed == logOutcome \in {"initThrows", "getThrows", "putThrows", "flushThrows"}

\* C33: when the log write of the catch block fails, openNavigation still ends
\* with the error of the exhausted candidates, not with the error of the log
\* store.
C33_LogFailureSwallowed ==
  LogWriteFailed =>
    /\ pc = "thrown"
    /\ thrown = "all navigation attempts failed"
    /\ Len(SelectSeq(trace, LAMBDA e : e.op = "try")) = Len(candidates)

\* SearchLogStore.init threw after the last candidate failed: nothing was
\* stored and the caller got the exhaustion error
C33_Witness ==
  /\ logOutcome = "initThrows"
  /\ pc = "thrown"
  /\ thrown = "all navigation attempts failed"
  /\ prefLogs = logsAtStart
  /\ ~logInstance

-----------------------------------------------------------------------------
(* C34: the launch with fallback *)

\* the launches that have settled, in order
NavLaunches == SelectSeq(navTrace, LAMBDA e : e.op = "startAbility" /\ e.res # "start")

\* the Petal map first, then the external candidates in their order, nothing
\* after a success
LaunchedInOrder ==
  LET targets == << "petal" >> \o ExternalSchemes
  IN  /\ Len(NavLaunches) <= Len(targets)
      /\ \A k \in 1..Len(NavLaunches) :
           /\ NavLaunches[k].target = targets[k]
           /\ k < Len(NavLaunches) => NavLaunches[k].res = "fail"

\* C34: openNavigationWithPlanning ends with a boolean and never with an
\* error; the launches were made in order, true was returned at the first
\* success and false only after the Petal map and every external candidate
\* had failed.
C34_BooleanAfterOrderedLaunches ==
  /\ LaunchedInOrder
  /\ npc = "done" =>
       /\ navReturn \in {"true", "false"}
       /\ navReturn = "true" <=> NavLaunches[Len(NavLaunches)].res = "ok"
       /\ navReturn = "false" => Len(NavLaunches) = 1 + Len(ExternalSchemes)

-----------------------------------------------------------------------------
(* C35: HTTP request objects *)

\* C35: no request object is destroyed twice, and when the provider call has
\* completed every request object it created has been destroyed, in
\* searchWithHuaweiMapKit as in makeRequest.
C35_EveryRequestDestroyed ==
  /\ overpassHttp.destroyed <= overpassHttp.created
  /\ routeHttp.destroyed <= routeHttp.created
  /\ spc = "done" => overpassHttp.destroyed = overpassHttp.created
  /\ rpc = "done" => routeHttp.destroyed = routeHttp.created

-----------------------------------------------------------------------------
(* C36, C37: location *)

\* C36: with the location switch off, getCurrentLocation issues no location
\* request and fails with the error that the location service is not enabled.
C36_SwitchOffFailsFirst ==
  (geoEnv.op = "getCurrentLocation" /\ geoEnv.switch = "off") =>
    /\ geoRequests = << >>
    /\ gpc = "done"
    /\ geoResult = Rejected(PlainError("location service not enabled"))

\* C37: without the permission, getCurrentLatLng issues no location request
\* and fails with code LOCATION_PERMISSION_DENIED, retryable = false.
C37_PermissionDeniedError ==
  (geoEnv.op = "getCurrentLatLng" /\ geoEnv.permission # "granted") =>
    /\ geoRequests = << >>
    /\ gpc = "done"
    /\ geoResult.state = "rejected"
    /\ geoResult.error.code = "LOCATION_PERMISSION_DENIED"
    /\ geoResult.error.retryable = FALSE

-----------------------------------------------------------------------------
(* C38, C39: the map adapter *)

\* how often a position was handed to the controller
TimesApplied(position) == Len(SelectSeq(cameraMoves, LAMBDA q : q = position))

\* C38: a position saved before the controller was attached is not lost: it is
\* in its slot, waiting for its timer or applied; with a controller attached
\* the slot is empty; and no position is applied twice.
C38_PendingMoveAppliedOnce ==
  /\ lastSaved # NoPosition =>
       \/ pendingCameraPosition = lastSaved
       \/ lastSaved \in cameraTimers
       \/ TimesApplied(lastSaved) = 1
  /\ Attached => pendingCameraPosition = NoPosition
  /\ \A position \in 1..MaxMoves : TimesApplied(position) <= 1

\* C39: highlightedMarkerId is null or the id of a marker in the map.
C39_HighlightIsAMarker ==
  highlightedMarkerId = NoMarker \/ highlightedMarkerId \in markers

\* two markers were added, the first is gone and the second is highlighted
C39_Witness ==
  /\ markerIdCounter = 2
  /\ markers = {2}
  /\ highlightedMarkerId = 2
  /\ Attached

-----------------------------------------------------------------------------
(* C40: a corrupt stored value *)

\* C40: getAll gives the empty list for a stored value that is not a JSON
\* array, and the put of an append that read such a value stores the log of
\* that append and nothing else.
C40_AppendAfterCorrupt ==
  [][\A a \in Appenders :
       (apc[a] = "put" /\ apc'[a] = "flush" /\ ~reading[a].valid) =>
         /\ getAll(reading[a]) = << >>
         /\ prefLogs' = Stored(<<appending[a]>>)]_vars

\* the store was corrupt and the first append has put its log
C40_Witness ==
  /\ logsAtStart = CorruptStored
  /\ \E a \in Appenders : apc[a] = "flush" /\ reading[a] = CorruptStored
  /\ prefLogs = Stored(<<NewLog(1)>>)

=============================================================================
